---- MODULE Spec2Model ----
(***************************************************************************)
(* The data-loading pipeline of app.py: the per-category dispatch of a     *)
(* render pass, load_data and its freshness comparison, the paginated API  *)
(* fetcher, the metadata query, the snapshot loaders and the shared        *)
(* st.cache_data cache with its TTL and its clear().                       *)
(*                                                                         *)
(* A session runs the script top to bottom once per render pass.  Network  *)
(* calls are the only points where a pass waits, so every request is one   *)
(* step of its own: its outcome is an input drawn from a small set.        *)
(***************************************************************************)
EXTENDS Integers, Sequences, FiniteSets, TLC

(* ------------------------------ bounds -------------------------------- *)

\* The server holds fewer than MaxPages full pages: request number MaxPages
\* of one fetch never returns a full page.
MaxPages == 3

\* The size of a short (last) page.
ShortPage == 400

\* Render passes one session runs.
MaxPasses == 4

\* The clock advances MaxTicks times by TickStep seconds from StartTime.
MaxTicks == 2

TickStep == 1800

\* 2026-11-05 23:00:00 UTC
StartTime == 1793919600

\* Rows of a snapshot file that parses.
CsvRowCount == 2

\* Rows of a frame handed to process_dataframe.
MaxRows == 2

\* The longest text tried as the cell of a numeric column, and the
\* characters it is written with.
CellLen == 4

CellChars == {"1", "2", ",", ".", "$", "x"}

(* ------------------------- program constants -------------------------- *)

\* limit = 900
Limit == 900

\* @st.cache_data(ttl=3600)
TTL == 3600

\* CSV_DATE = "20260217": a string of eight digits
CSV_DATE == <<2, 0, 2, 6, 0, 2, 1, 7>>

Sessions == {"s1", "s2"}

NoSession == "none"

\* The five choices of the radio widget, by the dataset_type they set.
Categories == {"general", "rural", "military", "cmc_mcy", "used_housing"}

\* The cached functions: one cache per decorated function, no arguments.
Keys == {"get_api_last_update", "fetch_data_from_api", "load_csv_data",
         "load_csv_rural_data", "load_csv_military_data",
         "load_csv_cmc_mcy_data", "load_csv_used_housing_data"}

\* Local time zones of the host (seconds east of UTC): UTC and Bogota.
TzOffsets == {0, -18000}

(* ------------------------------ values -------------------------------- *)

\* Python's None and a value that is not None.
NoneVal == [isNone |-> TRUE]

Some(v) == [isNone |-> FALSE, val |-> v]

\* pd.DataFrame(): no rows.
EmptyFrame == [src |-> "none", rows |-> <<>>]

\* pd.DataFrame(rows) passed through process_dataframe, which keeps every
\* row in place (it rewrites column names and values only).
ProcessedFrame(src, rows) == [src |-> src, rows |-> rows]

\* A cache with no entry for a key.
NoEntry == [present |-> FALSE]

\* Before a session's first pass there is no pass to remember.
NoPass == [some |-> FALSE]

(* ------------------------------- dates -------------------------------- *)

\* The eight digits of y, m, d as strftime("%Y%m%d") prints them.
DateDigits(y, m, d) ==
    << (y \div 1000) % 10, (y \div 100) % 10, (y \div 10) % 10, y % 10,
       (m \div 10) % 10, m % 10, (d \div 10) % 10, d % 10 >>

\* The civil date of a day number counted from 1970-01-01.
CivilFromDays(days) ==
    LET z   == days + 719468
        era == z \div 146097
        doe == z - era * 146097
        yoe == (doe - doe \div 1460 + doe \div 36524 - doe \div 146096) \div 365
        doy == doe - (365 * yoe + yoe \div 4 - yoe \div 100)
        mp  == (5 * doy + 2) \div 153
        d   == doy - (153 * mp + 2) \div 5 + 1
        m   == IF mp < 10 THEN mp + 3 ELSE mp - 9
        y   == yoe + era * 400 + (IF m <= 2 THEN 1 ELSE 0)
    IN  DateDigits(y, m, d)

\* datetime.fromtimestamp(ts).strftime("%Y%m%d") on a host zone seconds east.
StrfTime(ts, zone) == CivilFromDays((ts + zone) \div 86400)

\* Python's a > b on strings, here strings of digits: the first position
\* that differs decides, and a proper prefix is the smaller one.
StrGreater(a, b) ==
    \/ \E i \in 1..Len(a) :
          /\ i <= Len(b)
          /\ a[i] > b[i]
          /\ \A j \in 1..(i - 1) : a[j] = b[j]
    \/ /\ Len(a) > Len(b)
       /\ \A j \in 1..Len(b) : a[j] = b[j]

(* ------------------------------- inputs ------------------------------- *)

\* One field of the metadata object: not there, there without a number
\* (JSON null), or a Unix timestamp.
FieldAbsent == [kind |-> "absent"]

FieldNull == [kind |-> "null"]

FieldTs(t) == [kind |-> "ts", v |-> t]

\* 2026-01-01 12:00, 2026-02-17 12:00, 2026-02-18 02:00 and 2026-03-01 12:00 UTC.
Timestamps == {1767268800, 1771329600, 1771380000, 1772366400}

FieldValues == {FieldAbsent, FieldNull} \cup {FieldTs(t) : t \in Timestamps}

\* What the metadata request comes back with: a failure (timeout, HTTP
\* status, connection, body that is no JSON) or the JSON object.
MetaResponses ==
    {[ok |-> FALSE]} \cup
    {[ok |-> TRUE, rowsUpdatedAt |-> a, dataUpdatedAt |-> b] :
        a \in FieldValues, b \in FieldValues}

NoResponse == [ok |-> FALSE, none |-> TRUE]

PageSizes == {0, ShortPage, Limit - 1, Limit}

\* What one page request comes back with: a JSON array of n rows, or a
\* requests.exceptions.RequestException.
PageOutcomes ==
    {[kind |-> "data", n |-> n] : n \in PageSizes} \cup
    {[kind |-> "fail", err |-> e] : e \in {"timeout", "http", "network"}}

\* The rows the server returns for $offset = off, n of them.
Page(off, n) == [i \in 1..n |-> off + i]

SnapshotRows == [i \in 1..CsvRowCount |-> i]

(* ------------------------------- state -------------------------------- *)

VARIABLES
    now,            \* the clock, Unix seconds
    tz,             \* the host's zone, seconds east of UTC
    cache,          \* st.cache_data: key -> entry
    lock,           \* the session computing a key's value, or NoSession
    orphan,         \* session -> its computation started before a clear()
    fetch_log,      \* key -> when its body last started, twice back, since clear()
    pc,             \* session -> where its script run stands
    passes,         \* session -> render passes started
    pass_at,        \* session -> the clock when this pass started
    prev,           \* session -> what the pass before this one did
    subsidy_type,   \* session -> the radio's choice
    in_session_state, \* session -> 'force_refresh' in st.session_state
    force_refresh,  \* session -> st.session_state.force_refresh
    clicked,        \* session -> this pass was started by the button
    view,           \* session -> what the last finished pass rendered
    df,             \* session -> the loaded frame
    data_source,    \* session -> the source label
    data_date,      \* session -> the as-of date
    api_date,       \* session -> load_data's api_date
    metadata,       \* session -> the metadata response of this pass
    all_data,       \* session -> fetch_data_from_api's all_data
    offset,         \* session -> fetch_data_from_api's offset
    requests,       \* session -> the page requests this fetch issued
    responses,      \* session -> what each of them came back with
    progress,       \* session -> the texts written to status_text
    messages,       \* session -> st.error/warning/info/success of this pass
    called,         \* session -> cached functions called in this pass
    fetched,        \* session -> cached functions whose body ran in this pass
    dataset_type,   \* process_dataframe's dataset_type
    raw_df,         \* the frame handed to process_dataframe
    norm_df,        \* the frame process_dataframe returned
    norm_pc         \* how often process_dataframe was applied to raw_df

clockVars == <<now, tz>>

cacheVars == <<cache, lock, orphan, fetch_log>>

flagVars == <<in_session_state, force_refresh>>

passVars == <<passes, pass_at, prev, subsidy_type, clicked, view>>

loadVars == <<df, data_source, data_date>>

metaVars == <<api_date, metadata>>

fetchVars == <<all_data, offset, requests, responses, progress>>

logVars == <<messages, called, fetched>>

normVars == <<dataset_type, raw_df, norm_df, norm_pc>>

vars == <<clockVars, cacheVars, flagVars, passVars, loadVars, metaVars,
          fetchVars, logVars, pc, normVars>>

\* No session has made a request yet.
InitSessions ==
    /\ now = StartTime
    /\ tz \in TzOffsets
    /\ cache = [k \in Keys |-> NoEntry]
    /\ lock = [k \in Keys |-> NoSession]
    /\ orphan = [s \in Sessions |-> FALSE]
    /\ fetch_log = [k \in Keys |-> <<>>]
    /\ pc = [s \in Sessions |-> "idle"]
    /\ passes = [s \in Sessions |-> 0]
    /\ pass_at = [s \in Sessions |-> StartTime]
    /\ prev = [s \in Sessions |-> NoPass]
    /\ subsidy_type = [s \in Sessions |-> "general"]
    /\ in_session_state = [s \in Sessions |-> FALSE]
    /\ force_refresh = [s \in Sessions |-> FALSE]
    /\ clicked = [s \in Sessions |-> FALSE]
    /\ view = [s \in Sessions |-> "none"]
    /\ df = [s \in Sessions |-> EmptyFrame]
    /\ data_source = [s \in Sessions |-> ""]
    /\ data_date = [s \in Sessions |-> <<>>]
    /\ api_date = [s \in Sessions |-> NoneVal]
    /\ metadata = [s \in Sessions |-> NoResponse]
    /\ all_data = [s \in Sessions |-> <<>>]
    /\ offset = [s \in Sessions |-> 0]
    /\ requests = [s \in Sessions |-> <<>>]
    /\ responses = [s \in Sessions |-> <<>>]
    /\ progress = [s \in Sessions |-> <<>>]
    /\ messages = [s \in Sessions |-> {}]
    /\ called = [s \in Sessions |-> <<>>]
    /\ fetched = [s \in Sessions |-> <<>>]

\* The pipeline's specifications look at frames by their rows only.
Init ==
    /\ InitSessions
    /\ dataset_type = "general"
    /\ raw_df = <<>>
    /\ norm_df = <<>>
    /\ norm_pc = 0

(* ------------------------------ the cache ----------------------------- *)

\* A cache whose entries are gone one TickStep early.
CachedHitShortLived(k) ==
    cache[k].present /\ now + TickStep < cache[k].created + TTL

\* A call of a cached function is served from the cache when the key has
\* an entry younger than its ttl.
CachedHit(k) == cache[k].present /\ now < cache[k].created + TTL

\* A call that misses computes the value itself unless another session is
\* computing it: then it waits for that session's value.
CanEnter(k) == CachedHit(k) \/ lock[k] = NoSession

\* A cache that keeps only results that came without an error: no None, no
\* empty frame, nothing that showed a message on the way.
StoredUnlessDegraded(s, k, v, msgs) ==
    IF orphan[s] \/ v \in {NoneVal, EmptyFrame} \/ msgs # {} THEN cache
    ELSE [cache EXCEPT ![k] = [present |-> TRUE, value |-> v,
                               created |-> now, msgs |-> msgs]]

\* The cache after session s has computed value v for key k, having shown
\* the messages msgs on the way.  A computation that started before a
\* clear() writes to the caches that clear() dropped.
Stored(s, k, v, msgs) ==
    IF orphan[s] THEN cache
    ELSE [cache EXCEPT ![k] = [present |-> TRUE, value |-> v,
                               created |-> now, msgs |-> msgs]]

Released(s, k) == IF lock[k] = s THEN [lock EXCEPT ![k] = NoSession] ELSE lock

\* The log of a key whose body starts now: the start before, and this one.
Started(log) == IF log = <<>> THEN <<now>> ELSE <<log[Len(log)], now>>

\* The entries the clock has not expired at time t.
Unexpired(t) ==
    [k \in Keys |->
        IF cache[k].present /\ t >= cache[k].created + TTL
        THEN NoEntry ELSE cache[k]]

(* --------------------------- a render pass ---------------------------- *)

\* A dispatch whose Vivienda Usada branch goes through the General loader.
LoaderOfUsedAsGeneral(c) ==
    CASE c = "rural" -> "load_csv_rural_data"
      [] c = "military" -> "load_csv_military_data"
      [] c = "cmc_mcy" -> "load_csv_cmc_mcy_data"
      [] OTHER -> "load_csv_data"

\* dataset_type is 'general' for the first radio choice.
LoaderOf(c) ==
    CASE c = "rural" -> "load_csv_rural_data"
      [] c = "military" -> "load_csv_military_data"
      [] c = "cmc_mcy" -> "load_csv_cmc_mcy_data"
      [] c = "used_housing" -> "load_csv_used_housing_data"
      [] OTHER -> "load_csv_data"

LabelOf(c) ==
    CASE c = "rural" -> "CSV Rural"
      [] c = "military" -> "CSV Militar/Policia"
      [] c = "cmc_mcy" -> "CSV CMC-MCY"
      [] c = "used_housing" -> "CSV Vivienda Usada"
      [] OTHER -> "CSV"

\* The script starts: the radio is read, session_state gets its
\* force_refresh when it has none, and the pass's own names are fresh.
BeginPass(s, c, click) ==
    /\ pc[s] \in {"idle", "rerun"}
    /\ passes[s] < MaxPasses
    /\ passes' = [passes EXCEPT ![s] = @ + 1]
    /\ pass_at' = [pass_at EXCEPT ![s] = now]
    /\ prev' = [prev EXCEPT ![s] =
                   IF passes[s] = 0 THEN NoPass
                   ELSE [some |-> TRUE, cat |-> subsidy_type[s], at |-> pass_at[s],
                         called |-> called[s], fetched |-> fetched[s],
                         frame |-> df[s], source |-> data_source[s],
                         date |-> data_date[s], view |-> view[s]]]
    /\ subsidy_type' = [subsidy_type EXCEPT ![s] = c]
    /\ clicked' = [clicked EXCEPT ![s] = click]
    /\ view' = [view EXCEPT ![s] = "none"]
    /\ in_session_state' = [in_session_state EXCEPT ![s] = TRUE]
    /\ force_refresh' = [force_refresh EXCEPT ![s] =
                            IF in_session_state[s] THEN @ ELSE FALSE]
    /\ df' = [df EXCEPT ![s] = EmptyFrame]
    /\ data_source' = [data_source EXCEPT ![s] = ""]
    /\ data_date' = [data_date EXCEPT ![s] = <<>>]
    /\ api_date' = [api_date EXCEPT ![s] = NoneVal]
    /\ metadata' = [metadata EXCEPT ![s] = NoResponse]
    /\ all_data' = [all_data EXCEPT ![s] = <<>>]
    /\ offset' = [offset EXCEPT ![s] = 0]
    /\ requests' = [requests EXCEPT ![s] = <<>>]
    /\ responses' = [responses EXCEPT ![s] = <<>>]
    /\ progress' = [progress EXCEPT ![s] = <<>>]
    /\ messages' = [messages EXCEPT ![s] = {}]
    /\ called' = [called EXCEPT ![s] = <<>>]
    /\ fetched' = [fetched EXCEPT ![s] = <<>>]
    /\ pc' = [pc EXCEPT ![s] = "dispatch"]
    /\ UNCHANGED <<normVars, clockVars, cacheVars>>

\* A pass started by the session's first request, by a widget the user
\* changed, or by st.rerun(): the radio holds whatever the user chose last.
StartPass(s, c) == BeginPass(s, c, FALSE)

\* The user presses the refresh button, which only a General view that got
\* as far as its data renders: the script runs again with the button set.
ClickRefresh(s) ==
    /\ pc[s] = "idle"
    /\ view[s] = "data"
    /\ subsidy_type[s] = "general"
    /\ BeginPass(s, "general", TRUE)

\* load_data (or the dispatch) returns to the script.
ReturnLoad(s, frame, source, date) ==
    /\ df' = [df EXCEPT ![s] = frame]
    /\ data_source' = [data_source EXCEPT ![s] = source]
    /\ data_date' = [data_date EXCEPT ![s] = date]
    /\ pc' = [pc EXCEPT ![s] = "after_load"]

\* A load_data that stamps a forced load with the snapshot's date.
ApiAsOfSnapshot(s) == IF force_refresh[s] THEN CSV_DATE ELSE api_date[s].val

\* The date load_data returns beside an API frame: today's when forced,
\* the metadata's otherwise.
ApiAsOf(s) == IF force_refresh[s] THEN StrfTime(now, tz) ELSE api_date[s].val

\* fetch_data_from_api(): served from the cache, or its body starts.
\* shown: what load_data displayed before the call.
CallFetchApi(s, shown) ==
    LET k == "fetch_data_from_api" IN
    /\ CanEnter(k)
    /\ called' = [called EXCEPT ![s] = Append(@, k)]
    /\ IF CachedHit(k)
       THEN /\ ReturnLoad(s, cache[k].value, "API", ApiAsOf(s))
            /\ messages' = [messages EXCEPT ![s] = @ \cup shown \cup cache[k].msgs]
            /\ UNCHANGED <<lock, fetch_log, fetched, fetchVars>>
       ELSE /\ lock' = [lock EXCEPT ![k] = s]
            /\ fetch_log' = [fetch_log EXCEPT ![k] = Started(@)]
            /\ fetched' = [fetched EXCEPT ![s] = Append(@, k)]
            /\ messages' = [messages EXCEPT ![s] = @ \cup shown]
            /\ all_data' = [all_data EXCEPT ![s] = <<>>]
            /\ offset' = [offset EXCEPT ![s] = 0]
            /\ requests' = [requests EXCEPT ![s] = <<>>]
            /\ responses' = [responses EXCEPT ![s] = <<>>]
            /\ progress' = [progress EXCEPT ![s] = <<>>]
            /\ pc' = [pc EXCEPT ![s] = "in_api"]
            /\ UNCHANGED loadVars
    /\ UNCHANGED <<normVars, clockVars, cache, orphan, flagVars, passVars, metaVars>>

\* A snapshot loader: served from the cache, or its read_csv starts.
CallCsv(s, k, label, shown) ==
    /\ CanEnter(k)
    /\ called' = [called EXCEPT ![s] = Append(@, k)]
    /\ IF CachedHit(k)
       THEN /\ ReturnLoad(s, cache[k].value, label, CSV_DATE)
            /\ messages' = [messages EXCEPT ![s] = @ \cup shown \cup cache[k].msgs]
            /\ UNCHANGED <<lock, fetch_log, fetched>>
       ELSE /\ lock' = [lock EXCEPT ![k] = s]
            /\ fetch_log' = [fetch_log EXCEPT ![k] = Started(@)]
            /\ fetched' = [fetched EXCEPT ![s] = Append(@, k)]
            /\ messages' = [messages EXCEPT ![s] = @ \cup shown]
            /\ pc' = [pc EXCEPT ![s] = "in_csv"]
            /\ UNCHANGED loadVars
    /\ UNCHANGED <<normVars, clockVars, cache, orphan, flagVars, passVars, metaVars,
                   fetchVars>>

\* Every radio choice but the first calls its own snapshot loader; the
\* as-of date is CSV_DATE.
DispatchSnapshot(s) ==
    /\ pc[s] = "dispatch"
    /\ subsidy_type[s] # "general"
    /\ CallCsv(s, LoaderOf(subsidy_type[s]), LabelOf(subsidy_type[s]), {})

\* load_data(force_api=st.session_state.force_refresh): forced, it calls
\* fetch_data_from_api at once; otherwise it first asks for the API's date.
LoadData(s) ==
    /\ pc[s] = "dispatch"
    /\ subsidy_type[s] = "general"
    /\ IF force_refresh[s]
       THEN CallFetchApi(s, {})
       ELSE LET k == "get_api_last_update" IN
            /\ CanEnter(k)
            /\ called' = [called EXCEPT ![s] = Append(@, k)]
            /\ IF CachedHit(k)
               THEN /\ api_date' = [api_date EXCEPT ![s] = cache[k].value]
                    /\ messages' = [messages EXCEPT ![s] = @ \cup cache[k].msgs]
                    /\ pc' = [pc EXCEPT ![s] = "compare"]
                    /\ UNCHANGED <<lock, fetch_log, fetched>>
               ELSE /\ lock' = [lock EXCEPT ![k] = s]
                    /\ fetch_log' = [fetch_log EXCEPT ![k] = Started(@)]
                    /\ fetched' = [fetched EXCEPT ![s] = Append(@, k)]
                    /\ pc' = [pc EXCEPT ![s] = "in_meta"]
                    /\ UNCHANGED <<api_date, messages>>
            /\ UNCHANGED <<normVars, clockVars, cache, orphan, flagVars, passVars,
                           loadVars, metadata, fetchVars>>

(* ------------------------- get_api_last_update ------------------------ *)

\* A body that also falls back to dataUpdatedAt when rowsUpdatedAt is
\* there but holds no timestamp.
get_api_last_update_lenient(resp, zone) ==
    IF ~resp.ok
    THEN [value |-> NoneVal, warned |-> TRUE]
    ELSE IF resp.rowsUpdatedAt.kind = "ts"
    THEN [value |-> Some(StrfTime(resp.rowsUpdatedAt.v, zone)), warned |-> FALSE]
    ELSE IF resp.dataUpdatedAt.kind = "ts"
    THEN [value |-> Some(StrfTime(resp.dataUpdatedAt.v, zone)), warned |-> FALSE]
    ELSE [value |-> NoneVal, warned |-> FALSE]

\* The body of get_api_last_update on the response resp, on a host in zone:
\* the date it returns, and whether it showed its warning (the except
\* branch ran).  A field that is there decides alone: when its value is
\* no timestamp, fromtimestamp raises and the except branch returns None.
get_api_last_update(resp, zone) ==
    IF ~resp.ok
    THEN [value |-> NoneVal, warned |-> TRUE]
    ELSE IF resp.rowsUpdatedAt.kind # "absent"
    THEN IF resp.rowsUpdatedAt.kind = "ts"
         THEN [value |-> Some(StrfTime(resp.rowsUpdatedAt.v, zone)), warned |-> FALSE]
         ELSE [value |-> NoneVal, warned |-> TRUE]
    ELSE IF resp.dataUpdatedAt.kind # "absent"
    THEN IF resp.dataUpdatedAt.kind = "ts"
         THEN [value |-> Some(StrfTime(resp.dataUpdatedAt.v, zone)), warned |-> FALSE]
         ELSE [value |-> NoneVal, warned |-> TRUE]
    ELSE [value |-> NoneVal, warned |-> FALSE]

\* The metadata request comes back; the function returns into load_data.
MetaResponse(s, resp) ==
    LET k == "get_api_last_update"
        r == get_api_last_update(resp, tz)
        msgs == IF r.warned THEN {"meta_warning"} ELSE {}
    IN
    /\ pc[s] = "in_meta"
    /\ metadata' = [metadata EXCEPT ![s] = resp]
    /\ api_date' = [api_date EXCEPT ![s] = r.value]
    /\ messages' = [messages EXCEPT ![s] = @ \cup msgs]
    /\ cache' = Stored(s, k, r.value, msgs)
    /\ lock' = Released(s, k)
    /\ UNCHANGED fetch_log
    /\ orphan' = [orphan EXCEPT ![s] = FALSE]
    /\ pc' = [pc EXCEPT ![s] = "compare"]
    /\ UNCHANGED <<normVars, clockVars, flagVars, passVars, loadVars, fetchVars,
                   called, fetched>>

\* A comparison that also takes the API on equal dates: api_date >= CSV_DATE.
ApiIsNewerOrEqual(date) ==
    ~date.isNone /\ (StrGreater(date.val, CSV_DATE) \/ date.val = CSV_DATE)

\* if api_date and api_date > CSV_DATE
ApiIsNewer(date) == ~date.isNone /\ StrGreater(date.val, CSV_DATE)

\* load_data after get_api_last_update(): the API when its date is newer
\* than the snapshot's, the General snapshot otherwise.
Compare(s) ==
    /\ pc[s] = "compare"
    /\ IF ApiIsNewer(api_date[s])
       THEN CallFetchApi(s, {"info_api_newer"})
       ELSE CallCsv(s, "load_csv_data", "CSV",
                    IF api_date[s].isNone THEN {} ELSE {"success_csv_current"})

(* ------------------------- fetch_data_from_api ------------------------ *)

\* A loop that keeps the last page only: all_data = data.
ExtendedByReplacing(all, data) == data

\* all_data.extend(data)
Extended(all, data) == all \o data

\* A status text that counts the page, len(data), not the running total.
LoadedTotalOfPage(all, data) == Len(data)

\* The number in the text 'Cargados N registros...': len(all_data) after
\* the page data was added.
LoadedTotal(all, data) == Len(all)

\* A loop that no page of rows ends, however short.
LastPageNever(n) == FALSE

\* A loop that also stops on a full page: len(data) <= limit.
LastPageOrFull(n) == n <= Limit

\* if len(data) < limit: break
LastPage(n) == n < Limit

\* An except branch that breaks without showing anything.
ApiErrorSilent == {}

\* st.error("Error al cargar datos de la API: ...") of the except branch.
ApiErrorShown == {"api_error"}

\* One turn of the while loop: the request with the current offset, and
\* what the loop does with what comes back.
PageRequest(s, out) ==
    /\ pc[s] = "in_api"
    /\ (out.kind = "data" /\ out.n = Limit) => Len(requests[s]) + 1 < MaxPages
    /\ requests' = [requests EXCEPT ![s] =
                       Append(@, [limit |-> Limit, offset |-> offset[s]])]
    /\ responses' = [responses EXCEPT ![s] = Append(@, out)]
    /\ IF out.kind = "fail"
       THEN /\ messages' = [messages EXCEPT ![s] = @ \cup ApiErrorShown]
            /\ pc' = [pc EXCEPT ![s] = "api_exit"]
            /\ UNCHANGED <<all_data, offset, progress>>
       ELSE IF out.n = 0
       THEN /\ pc' = [pc EXCEPT ![s] = "api_exit"]
            /\ UNCHANGED <<all_data, offset, progress, messages>>
       ELSE LET data == Page(offset[s], out.n)
                grown == Extended(all_data[s], data)
            IN
            /\ all_data' = [all_data EXCEPT ![s] = grown]
            /\ offset' = [offset EXCEPT ![s] = @ + Limit]
            /\ progress' = [progress EXCEPT ![s] =
                               Append(@, [text |-> "Cargados",
                                          total |-> LoadedTotal(grown, data)])]
            /\ pc' = [pc EXCEPT ![s] = IF LastPage(out.n) THEN "api_exit" ELSE "in_api"]
            /\ UNCHANGED messages
    /\ UNCHANGED <<normVars, clockVars, cacheVars, flagVars, passVars, loadVars,
                   metaVars, called, fetched>>

\* After the loop: the closing status text, the frame of what was
\* gathered, and the return through the cache into load_data.
ApiReturn(s) ==
    LET k == "fetch_data_from_api"
        frame == IF all_data[s] # <<>>
                 THEN ProcessedFrame("api", all_data[s]) ELSE EmptyFrame
    IN
    /\ pc[s] = "api_exit"
    /\ progress' = [progress EXCEPT ![s] =
                       Append(@, [text |-> "Carga completa", total |-> Len(all_data[s])])]
    /\ cache' = Stored(s, k, frame, messages[s] \cap {"api_error"})
    /\ lock' = Released(s, k)
    /\ UNCHANGED fetch_log
    /\ orphan' = [orphan EXCEPT ![s] = FALSE]
    /\ ReturnLoad(s, frame, "API", ApiAsOf(s))
    /\ UNCHANGED <<normVars, clockVars, flagVars, passVars, metaVars, all_data, offset,
                   requests, responses, logVars>>

(* --------------------------- snapshot loaders ------------------------- *)

\* pd.read_csv comes back: the parsed file, or an exception, which the
\* loader shows and turns into an empty frame.
CsvResponse(s, ok) ==
    LET k == LoaderOf(subsidy_type[s])
        frame == IF ok THEN ProcessedFrame(k, SnapshotRows) ELSE EmptyFrame
        msgs == IF ok THEN {} ELSE {"csv_error"}
    IN
    /\ pc[s] = "in_csv"
    /\ messages' = [messages EXCEPT ![s] = @ \cup msgs]
    /\ cache' = Stored(s, k, frame, msgs)
    /\ lock' = Released(s, k)
    /\ UNCHANGED fetch_log
    /\ orphan' = [orphan EXCEPT ![s] = FALSE]
    /\ ReturnLoad(s, frame, LabelOf(subsidy_type[s]), CSV_DATE)
    /\ UNCHANGED <<normVars, clockVars, flagVars, passVars, metaVars, fetchVars,
                   called, fetched>>

(* ----------------------- the script after the load -------------------- *)

\* if st.session_state.force_refresh: reset it and st.rerun()
RerunAfterForce(s) ==
    /\ pc[s] = "after_load"
    /\ force_refresh[s]
    /\ force_refresh' = [force_refresh EXCEPT ![s] = FALSE]
    /\ pc' = [pc EXCEPT ![s] = "rerun"]
    /\ UNCHANGED <<normVars, clockVars, cacheVars, in_session_state, passVars, loadVars,
                   metaVars, fetchVars, logVars>>

\* if df.empty: st.error(...) and st.stop()
StopNoData(s) ==
    /\ pc[s] = "after_load"
    /\ ~force_refresh[s]
    /\ df[s].rows = <<>>
    /\ messages' = [messages EXCEPT ![s] = @ \cup {"no_data"}]
    /\ view' = [view EXCEPT ![s] = "no_data"]
    /\ pc' = [pc EXCEPT ![s] = "idle"]
    /\ UNCHANGED <<normVars, clockVars, cacheVars, flagVars, passes, pass_at, prev,
                   subsidy_type, clicked, loadVars, metaVars, fetchVars,
                   called, fetched>>

\* The pass renders its data; the button was not pressed.
Display(s) ==
    /\ pc[s] = "after_load"
    /\ ~force_refresh[s]
    /\ df[s].rows # <<>>
    /\ ~(clicked[s] /\ subsidy_type[s] = "general")
    /\ view' = [view EXCEPT ![s] = "data"]
    /\ pc' = [pc EXCEPT ![s] = "idle"]
    /\ UNCHANGED <<normVars, clockVars, cacheVars, flagVars, passes, pass_at, prev,
                   subsidy_type, clicked, loadVars, metaVars, fetchVars, logVars>>

\* A clear() of the General view's functions only.
ClearedOfGeneral ==
    [k \in Keys |->
        IF k \in {"get_api_last_update", "fetch_data_from_api", "load_csv_data"}
        THEN NoEntry ELSE cache[k]]

\* st.cache_data.clear(): no function keeps an entry.
Cleared == [k \in Keys |-> NoEntry]

\* The button was pressed: force_refresh = True, st.cache_data.clear(),
\* st.rerun().  clear() drops every cache of every function: a value being
\* computed at that moment will be written to a dropped cache.
RefreshHandler(s) ==
    /\ pc[s] = "after_load"
    /\ ~force_refresh[s]
    /\ df[s].rows # <<>>
    /\ clicked[s] /\ subsidy_type[s] = "general"
    /\ force_refresh' = [force_refresh EXCEPT ![s] = TRUE]
    /\ cache' = Cleared
    /\ lock' = [k \in Keys |-> NoSession]
    /\ fetch_log' = [k \in Keys |-> <<>>]
    /\ orphan' = [t \in Sessions |->
                     orphan[t] \/ pc[t] \in {"in_meta", "in_api", "api_exit", "in_csv"}]
    /\ pc' = [pc EXCEPT ![s] = "rerun"]
    /\ UNCHANGED <<normVars, clockVars, in_session_state, passVars, loadVars, metaVars,
                   fetchVars, logVars>>

(* ------------------------------ the clock ----------------------------- *)

\* Time passes while a session waits for the network or for its user.
Tick ==
    /\ now + TickStep <= StartTime + MaxTicks * TickStep
    /\ \A s \in Sessions : pc[s] \in {"idle", "in_meta", "in_api", "in_csv"}
    /\ now' = now + TickStep
    /\ cache' = Unexpired(now + TickStep)
    /\ UNCHANGED <<normVars, tz, lock, orphan, fetch_log, flagVars, passVars, loadVars, metaVars,
                   fetchVars, logVars, pc>>

(* --------------------------- process_dataframe ------------------------ *)

\* Text (a column name, a cell of type str) is a sequence of one-character
\* strings.  The column names the function looks for:
hogares == <<"h", "o", "g", "a", "r", "e", "s">>

valor_asignado ==
    <<"v", "a", "l", "o", "r", "_", "a", "s", "i", "g", "n", "a", "d", "o">>

ano_de_asignacion ==
    <<"a", "n", "o", "_", "d", "e", "_", "a", "s", "i", "g", "n", "a", "c",
      "i", "o", "n">>

a_o_de_asignaci_n ==
    <<"a", "_", "o", "_", "d", "e", "_", "a", "s", "i", "g", "n", "a", "c",
      "i", "_", "n">>

no_sfv_asignados ==
    <<"n", "o", "_", "s", "f", "v", "_", "a", "s", "i", "g", "n", "a", "d",
      "o", "s">>

a_o_de_asignacion ==
    <<"a", "_", "o", "_", "d", "e", "_", "a", "s", "i", "g", "n", "a", "c",
      "i", "o", "n">>

departamento == <<"d", "e", "p", "a", "r", "t", "a", "m", "e", "n", "t", "o">>

ano == <<"a", "n", "o">>

trimestre == <<"t", "r", "i", "m", "e", "s", "t", "r", "e">>

total_subsidios ==
    <<"t", "o", "t", "a", "l", "_", "s", "u", "b", "s", "i", "d", "i", "o",
      "s">>

total_vis == <<"t", "o", "t", "a", "l", "_", "v", "i", "s">>

total_no_vis == <<"t", "o", "t", "a", "l", "_", "n", "o", "_", "v", "i", "s">>

\* housing_cols, line 207
housing_cols ==
    <<
      <<"n", "u", "e", "v", "a", "_", "v", "i", "s">>,
      <<"n", "u", "e", "v", "a", "_", "n", "o", "_", "v", "i", "s">>,
      <<"u", "s", "a", "d", "a", "_", "v", "i", "s">>,
      <<"u", "s", "a", "d", "a", "_", "n", "o", "_", "v", "i", "s">>
    >>

\* force_cols, lines 242-247
force_cols ==
    <<
      <<"v", "i", "s", "_", "p", "o", "l", "i", "c", "i", "a", "_", "n",
        "a", "c", "i", "o", "n", "a", "l">>,
      <<"v", "i", "s", "_", "e", "j", "e", "r", "c", "i", "t", "o", "_",
        "n", "a", "c", "i", "o", "n", "a", "l">>,
      <<"v", "i", "s", "_", "f", "u", "e", "r", "z", "a", "_", "a", "e",
        "r", "e", "a", "_", "c", "o", "l", "o", "m", "b", "i", "a", "n", "a">>,
      <<"v", "i", "s", "_", "a", "r", "m", "a", "d", "a", "_", "n", "a",
        "c", "i", "o", "n", "a", "l">>,
      <<"v", "i", "s", "_", "o", "t", "r", "o", "s">>,
      <<"n", "o", "_", "v", "i", "s", "_", "p", "o", "l", "i", "c", "i",
        "a", "_", "n", "a", "c", "i", "o", "n", "a", "l">>,
      <<"n", "o", "_", "v", "i", "s", "_", "e", "j", "e", "r", "c", "i",
        "t", "o", "_", "n", "a", "c", "i", "o", "n", "a", "l">>,
      <<"n", "o", "_", "v", "i", "s", "_", "f", "u", "e", "r", "z", "a",
        "_", "a", "e", "r", "e", "a", "_", "c", "o", "l", "o", "m", "b", "i",
        "a", "n", "a">>,
      <<"n", "o", "_", "v", "i", "s", "_", "a", "r", "m", "a", "d", "a",
        "_", "n", "a", "c", "i", "o", "n", "a", "l">>,
      <<"n", "o", "_", "v", "i", "s", "_", "o", "t", "r", "o", "s">>
    >>

\* The department name the Military snapshot has cut short, and in full.

san_andres_cut ==
    <<"a", "r", "c", "h", "i", "p", "i", "e", "l", "a", "g", "o", "_", "d",
      "e", "_", "s", "a", "n", "_", "a", "n", "d", "r", "e", "s", "_", "p",
      "r", "o", "v", "i", "d", "e", "n", "c", "i", "a", "_", "y", "_", "s",
      "a", "n", "t", "a", "_", "c", "a">>

san_andres_full ==
    <<"a", "r", "c", "h", "i", "p", "i", "e", "l", "a", "g", "o", "_", "d",
      "e", "_", "s", "a", "n", "_", "a", "n", "d", "r", "e", "s", "_", "p",
      "r", "o", "v", "i", "d", "e", "n", "c", "i", "a", "_", "y", "_", "s",
      "a", "n", "t", "a", "_", "c", "a", "t", "a", "l", "i", "n", "a">>

\* dept_mapping, lines 218-227: <<unaccented, accented>>
dept_mapping ==
    <<
      <<<<"A", "T", "L", "A", "N", "T", "I", "C", "O">>,
        <<"A", "T", "L", "Á", "N", "T", "I", "C", "O">>>>,
      <<<<"B", "O", "G", "O", "T", "A", " ", "D", ".", " ", "C", ".">>,
        <<"B", "O", "G", "O", "T", "Á", ",", " ", "D", ".", "C", ".">>>>,
      <<<<"B", "O", "L", "I", "V", "A", "R">>,
        <<"B", "O", "L", "Í", "V", "A", "R">>>>,
      <<<<"B", "O", "Y", "A", "C", "A">>,
        <<"B", "O", "Y", "A", "C", "Á">>>>,
      <<<<"C", "A", "Q", "U", "E", "T", "A">>,
        <<"C", "A", "Q", "U", "E", "T", "Á">>>>,
      <<<<"C", "O", "R", "D", "O", "B", "A">>,
        <<"C", "Ó", "R", "D", "O", "B", "A">>>>,
      <<<<"G", "U", "A", "I", "N", "I", "A">>,
        <<"G", "U", "A", "I", "N", "Í", "A">>>>,
      <<<<"Q", "U", "I", "N", "D", "I", "O">>,
        <<"Q", "U", "I", "N", "D", "Í", "O">>>>
    >>

\* str.lower() on the letters the headers are written with.
UpperCase ==
    <<"A", "B", "C", "D", "E", "F", "G", "H", "I", "J", "K", "L", "M", "N",
      "O", "P", "Q", "R", "S", "T", "U", "V", "W", "X", "Y", "Z", "Á", "É",
      "Í", "Ó", "Ú", "Ñ">>

LowerCase ==
    <<"a", "b", "c", "d", "e", "f", "g", "h", "i", "j", "k", "l", "m", "n",
      "o", "p", "q", "r", "s", "t", "u", "v", "w", "x", "y", "z", "á", "é",
      "í", "ó", "ú", "ñ">>

LowerOf ==
    [c \in {UpperCase[i] : i \in 1..Len(UpperCase)} |->
        LowerCase[CHOOSE i \in 1..Len(UpperCase) : UpperCase[i] = c]]

Lower(c) == IF c \in DOMAIN LowerOf THEN LowerOf[c] ELSE c

\* str.lower()
StrLower(s) == [i \in 1..Len(s) |-> Lower(s[i])]

\* str.replace(a, b) for single characters a and b
ReplaceChar(s, a, b) == [i \in 1..Len(s) |-> IF s[i] = a THEN b ELSE s[i]]

\* str.replace(a, '') for a single character a
RemoveChar(s, a) ==
    LET Keep(c) == c # a IN SelectSeq(s, Keep)

\* str.replace('__', '_'): each pair of underscores once, left to right.
RECURSIVE SqueezePairs(_)
SqueezePairs(s) ==
    IF Len(s) < 2 THEN s
    ELSE IF s[1] = "_" /\ s[2] = "_"
    THEN <<"_">> \o SqueezePairs(SubSeq(s, 3, Len(s)))
    ELSE <<s[1]>> \o SqueezePairs(Tail(s))

\* str.replace('__+', '_', regex=True): every run of underscores becomes one.
RECURSIVE Squeeze(_)
Squeeze(s) ==
    IF Len(s) < 2 THEN s
    ELSE IF s[1] = "_" /\ s[2] = "_" THEN Squeeze(Tail(s))
    ELSE <<s[1]>> \o Squeeze(Tail(s))

\* Lines 172-174 on one column name.
CanonicalName(n) ==
    LET a == StrLower(n)
        b == ReplaceChar(a, " ", "_")
        c == ReplaceChar(b, "ó", "o")
        d == ReplaceChar(c, "ñ", "n")
        e == ReplaceChar(d, "í", "i")
        f == ReplaceChar(e, ".", "_")
        g == ReplaceChar(f, "-", "_")
    IN Squeeze(g)

StartsWith(s, prefix) ==
    Len(s) >= Len(prefix) /\ SubSeq(s, 1, Len(prefix)) = prefix

\* str.replace(pat, rep, regex=False): every occurrence, left to right.
RECURSIVE ReplaceAll(_, _, _)
ReplaceAll(s, pat, rep) ==
    IF Len(s) < Len(pat) THEN s
    ELSE IF StartsWith(s, pat)
    THEN rep \o ReplaceAll(SubSeq(s, Len(pat) + 1, Len(s)), pat, rep)
    ELSE <<s[1]>> \o ReplaceAll(Tail(s), pat, rep)

\* str.strip(): off with the blanks at both ends.
RECURSIVE LStrip(_)
LStrip(s) == IF s # <<>> /\ s[1] = " " THEN LStrip(Tail(s)) ELSE s

RECURSIVE RStrip(_)
RStrip(s) ==
    IF s # <<>> /\ s[Len(s)] = " " THEN RStrip(SubSeq(s, 1, Len(s) - 1)) ELSE s

Strip(s) == RStrip(LStrip(s))

(* Cells.  A cell is NaN, a str or a number; a number is v / 10^d, and it
   is a Python float or an int. *)
Missing == [kind |-> "nan"]

Str(s) == [kind |-> "str", s |-> s]

Num(v, d, float) == [kind |-> "num", v |-> v, d |-> d, float |-> float]

IsNumeric(cell) == cell.kind \in {"num", "nan"}

DigitChars == <<"0", "1", "2", "3", "4", "5", "6", "7", "8", "9">>

DigitValueOf ==
    [c \in {DigitChars[i] : i \in 1..10} |->
        (CHOOSE i \in 1..10 : DigitChars[i] = c) - 1]

IsDigit(c) == c \in DOMAIN DigitValueOf

DigitValue(c) == DigitValueOf[c]

AllDigits(s) == \A i \in 1..Len(s) : IsDigit(s[i])

\* The natural number a string of digits spells (0 for no digit).
RECURSIVE DigitsValue(_)
DigitsValue(s) ==
    IF s = <<>> THEN 0
    ELSE 10 * DigitsValue(SubSeq(s, 1, Len(s) - 1)) + DigitValue(s[Len(s)])

\* str(n) for a natural number n
RECURSIVE DigitsOf(_)
DigitsOf(n) ==
    IF n < 10 THEN <<DigitChars[n + 1]>>
    ELSE DigitsOf(n \div 10) \o <<DigitChars[(n % 10) + 1]>>

RECURSIVE Pow10(_)
Pow10(d) == IF d = 0 THEN 1 ELSE 10 * Pow10(d - 1)

\* The digits of n, zero-filled on the left to d places.
RECURSIVE ZeroFilled(_, _)
ZeroFilled(n, d) ==
    IF d = 0 THEN <<>>
    ELSE ZeroFilled(n \div 10, d - 1) \o <<DigitChars[(n % 10) + 1]>>

\* astype(str) on one cell: NaN reads 'nan', an int its digits, a float
\* its digits, a point and its decimals ('5.0' for 5.0).
AsStr(cell) ==
    IF cell.kind = "str" THEN cell.s
    ELSE IF cell.kind = "nan" THEN <<"n", "a", "n">>
    ELSE LET abs == IF cell.v < 0 THEN 0 - cell.v ELSE cell.v
             sign == IF cell.v < 0 THEN <<"-">> ELSE <<>>
             whole == DigitsOf(abs \div Pow10(cell.d))
             part == IF cell.d = 0 THEN <<"0">>
                     ELSE ZeroFilled(abs % Pow10(cell.d), cell.d)
         IN IF cell.float THEN sign \o whole \o <<".">> \o part
            ELSE sign \o whole

RECURSIVE NoTrailingZeros(_)
NoTrailingZeros(s) ==
    IF s # <<>> /\ s[Len(s)] = "0"
    THEN NoTrailingZeros(SubSeq(s, 1, Len(s) - 1)) ELSE s

\* pd.to_numeric(errors='coerce') on one str: an optional minus, digits
\* and at most one point among them give a number, an int when there is
\* no point; anything else, the empty string and 'nan' give NaN.
ParseNumber(s) ==
    LET neg == s # <<>> /\ s[1] = "-"
        body == IF neg THEN Tail(s) ELSE s
        points == {i \in 1..Len(body) : body[i] = "."}
        sgn == IF neg THEN -1 ELSE 1
    IN IF body # <<>> /\ AllDigits(body)
       THEN Num(sgn * DigitsValue(body), 0, FALSE)
       ELSE IF Cardinality(points) = 1
       THEN LET p == CHOOSE i \in points : TRUE
                whole == SubSeq(body, 1, p - 1)
                part == NoTrailingZeros(SubSeq(body, p + 1, Len(body)))
            IN IF /\ AllDigits(whole) /\ AllDigits(SubSeq(body, p + 1, Len(body)))
                  /\ Len(body) > 1
               THEN Num(sgn * (DigitsValue(whole) * Pow10(Len(part))
                                  + DigitsValue(part)),
                        Len(part), TRUE)
               ELSE Missing
       ELSE Missing

\* pd.to_numeric(column, errors='coerce'): each str is parsed, and the
\* column is float64 as soon as one cell is NaN or a float, int64 otherwise.
Parsed(col) ==
    [i \in 1..Len(col) |->
        IF col[i].kind = "str" THEN ParseNumber(col[i].s) ELSE col[i]]

AsOneDtype(parsed) ==
    [i \in 1..Len(parsed) |->
        IF /\ parsed[i].kind = "num"
           /\ \E j \in 1..Len(parsed) :
                  parsed[j].kind = "nan" \/ parsed[j].float
        THEN [parsed[i] EXCEPT !.float = TRUE] ELSE parsed[i]]

ToNumeric(col) == AsOneDtype(Parsed(col))

\* column.astype(str).str.replace(c1, '').str.replace(c2, '')...
RECURSIVE Removed(_, _)
Removed(s, chars) ==
    IF chars = <<>> THEN s
    ELSE Removed(RemoveChar(s, Head(chars)), Tail(chars))

\* pd.to_numeric(column.astype(str).str.replace(...)..., errors='coerce')
StripAndParse(col, chars) ==
    ToNumeric([i \in 1..Len(col) |-> Str(Removed(AsStr(col[i]), chars))])

\* The characters a money or household column gets rid of, and the ones a
\* year or sub-count column gets rid of.
CommaDollarPoint == <<",", "$", ".">>

CommaPoint == <<",", ".">>

(* Frames.  A frame is a function from its column names to its columns,
   each column the sequence of its cells by row. *)
NRows(f) == IF DOMAIN f = {} THEN 0 ELSE Len(f[CHOOSE n \in DOMAIN f : TRUE])

\* df[name] = col
Assign(f, name, col) ==
    [n \in DOMAIN f \cup {name} |-> IF n = name THEN col ELSE f[n]]

\* df.columns = ...: the columns under their canonical names (the headers
\* of a frame stay distinct under CanonicalName).
Renamed(f) ==
    [n \in {CanonicalName(m) : m \in DOMAIN f} |->
        f[CHOOSE m \in DOMAIN f : CanonicalName(m) = n]]

\* if col in df.columns: df[into] = pd.to_numeric(df[col]...)
Coerced(f, col, into, chars) ==
    IF col \in DOMAIN f THEN Assign(f, into, StripAndParse(f[col], chars))
    ELSE f

\* for col in cols: if col in df.columns: df[col] = pd.to_numeric(...)
RECURSIVE CoercedAll(_, _, _)
CoercedAll(f, cols, chars) ==
    IF cols = <<>> THEN f
    ELSE CoercedAll(Coerced(f, Head(cols), Head(cols), chars), Tail(cols), chars)

\* if 'trimestre' in df.columns: pd.to_numeric(df['trimestre'], ...)
TrimestreCoerced(f) ==
    IF trimestre \in DOMAIN f THEN Assign(f, trimestre, ToNumeric(f[trimestre]))
    ELSE f

\* column.str.<op>: a cell that is no str comes out NaN.
StrCut(cell) ==
    IF cell.kind = "str"
    THEN Str(ReplaceAll(cell.s, san_andres_cut, san_andres_full))
    ELSE Missing

\* dept_mapping looked up without the strip() before it.
DeptMappedUnstripped(cell) ==
    IF cell.kind # "str" THEN Missing
    ELSE IF \E i \in 1..Len(dept_mapping) : dept_mapping[i][1] = cell.s
    THEN Str(dept_mapping[CHOOSE i \in 1..Len(dept_mapping) :
                              dept_mapping[i][1] = cell.s][2])
    ELSE cell

\* .str.strip() and then .replace(dept_mapping): a whole value that is a
\* key of the table becomes the table's value.
DeptMapped(cell) ==
    IF cell.kind # "str" THEN Missing
    ELSE LET s == Strip(cell.s) IN
         IF \E i \in 1..Len(dept_mapping) : dept_mapping[i][1] = s
         THEN Str(dept_mapping[CHOOSE i \in 1..Len(dept_mapping) :
                                   dept_mapping[i][1] = s][2])
         ELSE Str(s)

\* The cells of a column are floats (float64) or ints (int64).
IsFloatColumn(col) ==
    \E i \in 1..Len(col) : col[i].kind = "nan" \/ col[i].float

CellValue(cell) == IF cell.kind = "num" THEN cell.v ELSE 0

RECURSIVE SumAt(_, _, _)
SumAt(f, cols, i) ==
    IF cols = <<>> THEN 0
    ELSE CellValue(f[Head(cols)][i]) + SumAt(f, Tail(cols), i)

\* A sum that is NaN as soon as one of its terms is.
RowSumsStrict(f, cols) ==
    [i \in 1..NRows(f) |->
        IF \E j \in 1..Len(cols) : f[cols[j]][i].kind = "nan" THEN Missing
        ELSE Num(SumAt(f, cols, i), 0,
                 \E j \in 1..Len(cols) : IsFloatColumn(f[cols[j]]))]

\* df[cols].sum(axis=1): NaN counts as 0; the columns summed are whole
\* numbers, and the sum is a float when one of them is a float column.
RowSums(f, cols) ==
    [i \in 1..NRows(f) |->
        Num(SumAt(f, cols, i), 0,
            \E j \in 1..Len(cols) : IsFloatColumn(f[cols[j]]))]

\* df[name] = 0
Zeros(f) == [i \in 1..NRows(f) |-> Num(0, 0, FALSE)]

Present(f, cols) ==
    LET In(c) == c \in DOMAIN f IN SelectSeq(cols, In)

\* Lines 176-182
ProcessGeneral(f) ==
    Coerced(Coerced(Coerced(f, hogares, hogares, CommaDollarPoint),
                    valor_asignado, valor_asignado, CommaDollarPoint),
            ano_de_asignacion, a_o_de_asignaci_n, CommaPoint)

\* Lines 183-191
ProcessRural(f) ==
    Coerced(Coerced(Coerced(f, no_sfv_asignados, no_sfv_asignados,
                            CommaDollarPoint),
                    valor_asignado, valor_asignado, CommaDollarPoint),
            ano_de_asignacion, a_o_de_asignacion, CommaPoint)

\* Lines 193-198
DepartamentoCompleted(f) ==
    IF departamento \in DOMAIN f
    THEN Assign(f, departamento,
                [i \in 1..NRows(f) |-> StrCut(f[departamento][i])])
    ELSE f

\* Lines 210-214
MilitaryTotal(f) ==
    IF Len(Present(f, housing_cols)) > 0
    THEN Assign(f, total_subsidios, RowSums(f, Present(f, housing_cols)))
    ELSE Assign(f, total_subsidios, Zeros(f))

\* Lines 192-214
ProcessMilitary(f) ==
    MilitaryTotal(
        CoercedAll(
            TrimestreCoerced(Coerced(DepartamentoCompleted(f), ano, ano,
                                     CommaPoint)),
            housing_cols, CommaPoint))

\* Lines 216-227
DepartamentoAccented(f) ==
    IF departamento \in DOMAIN f
    THEN Assign(f, departamento,
                [i \in 1..NRows(f) |-> DeptMapped(f[departamento][i])])
    ELSE f

\* Lines 215-235
ProcessCmcMcy(f) ==
    Coerced(Coerced(Coerced(DepartamentoAccented(f), no_sfv_asignados,
                            no_sfv_asignados, CommaPoint),
                    valor_asignado, valor_asignado, CommaDollarPoint),
            ano_de_asignacion, ano_de_asignacion, CommaPoint)

\* Lines 252-253
VisCols(f) ==
    LET IsVis(n) == StartsWith(n, <<"v", "i", "s", "_">>) /\ n \in DOMAIN f
    IN SelectSeq(force_cols, IsVis)

NoVisCols(f) ==
    LET IsNoVis(n) == /\ StartsWith(n, <<"n", "o", "_", "v", "i", "s", "_">>)
                      /\ n \in DOMAIN f
    IN SelectSeq(force_cols, IsNoVis)

\* Lines 255-256
WithTotalVis(f) ==
    IF VisCols(f) # <<>> THEN Assign(f, total_vis, RowSums(f, VisCols(f)))
    ELSE f

\* Lines 257-258
WithTotalNoVis(f) ==
    IF NoVisCols(f) # <<>>
    THEN Assign(f, total_no_vis, RowSums(f, NoVisCols(f))) ELSE f

\* Lines 259-260
WithTotalSubsidios(f) ==
    IF VisCols(f) # <<>> \/ NoVisCols(f) # <<>>
    THEN Assign(f, total_subsidios, RowSums(f, VisCols(f) \o NoVisCols(f)))
    ELSE f

\* Lines 236-260
ProcessUsedHousing(f) ==
    WithTotalSubsidios(WithTotalNoVis(WithTotalVis(
        CoercedAll(TrimestreCoerced(Coerced(f, ano, ano, CommaPoint)),
                   force_cols, CommaPoint))))

\* process_dataframe(df, dataset_type), lines 167-262
process_dataframe(f, type) ==
    LET g == Renamed(f) IN
    CASE type = "general" -> ProcessGeneral(g)
      [] type = "rural" -> ProcessRural(g)
      [] type = "military" -> ProcessMilitary(g)
      [] type = "cmc_mcy" -> ProcessCmcMcy(g)
      [] type = "used_housing" -> ProcessUsedHousing(g)
      [] OTHER -> g

(* The frames a loader hands to process_dataframe: headers as the source
   files spell them, each present or not, and cells as pd.read_csv and the
   API's JSON give them (text, a number already parsed, or nothing). *)
Header(name, cells) == [name |-> name, cells |-> cells]

GeneralHeaders ==
    <<
      Header(
          <<"H", "o", "g", "a", "r", "e", "s">>,
          {
                Str(
                    <<"1", ".", "2", "3", "4">>),
                Num(5, 0, FALSE),
                Missing
          }),
      Header(
          <<"V", "a", "l", "o", "r", " ", "A", "s", "i", "g", "n", "a", "d",
            "o">>,
          {
                Str(
                    <<"$", "4", "5", ",", "0", "0", "0">>),
                Missing
          }),
      Header(
          <<"A", "ñ", "o", " ", "d", "e", " ", "A", "s", "i", "g", "n", "a",
            "c", "i", "ó", "n">>,
          {
                Str(
                    <<"2", "0", "2", "2">>),
                Str(
                    <<"1", "8", "9", "9">>)
          }),
      Header(
          <<"a", "_", "o", "_", "d", "e", "_", "a", "s", "i", "g", "n", "a",
            "c", "i", "_", "n">>,
          {
                Str(
                    <<"2", "0", "2", "2">>),
                Str(
                    <<"1", "8", "9", "9">>)
          })
    >>

RuralHeaders ==
    <<
      Header(
          <<"N", "o", ".", " ", "S", "F", "V", " ", "A", "s", "i", "g", "n",
            "a", "d", "o", "s">>,
          {
                Str(
                    <<"1", ",", "0", "0", "0">>),
                Missing
          }),
      Header(
          <<"V", "a", "l", "o", "r", " ", "-", " ", "A", "s", "i", "g", "n",
            "a", "d", "o">>,
          {
                Str(
                    <<"$", "4", "5", ",", "0", "0", "0">>),
                Num(7, 0, FALSE)
          }),
      Header(
          <<"A", "ñ", "o", " ", "d", "e", " ", "A", "s", "i", "g", "n", "a",
            "c", "i", "ó", "n">>,
          {
                Str(
                    <<"2", ".", "0", "2", "2">>),
                Num(2021, 0, FALSE),
                Str(
                    <<"1", "8", "9", "9">>)
          })
    >>

MilitaryHeaders ==
    <<
      Header(
          <<"D", "e", "p", "a", "r", "t", "a", "m", "e", "n", "t", "o">>,
          {
                Str(
                    <<"a", "r", "c", "h", "i", "p", "i", "e", "l", "a", "g",
                      "o", "_", "d", "e", "_", "s", "a", "n", "_", "a", "n",
                      "d", "r", "e", "s", "_", "p", "r", "o", "v", "i", "d",
                      "e", "n", "c", "i", "a", "_", "y", "_", "s", "a", "n",
                      "t", "a", "_", "c", "a">>),
                Str(
                    <<"b", "o", "g", "o", "t", "a">>)
          }),
      Header(
          <<"A", "ñ", "o">>,
          {
                Str(
                    <<"2", "0", "2", "2">>),
                Num(1899, 0, FALSE)
          }),
      Header(
          <<"T", "r", "i", "m", "e", "s", "t", "r", "e">>,
          {
                Str(
                    <<"2">>),
                Missing
          }),
      Header(
          <<"N", "u", "e", "v", "a", " ", "V", "I", "S">>,
          {
                Num(3, 0, FALSE),
                Missing
          }),
      Header(
          <<"U", "s", "a", "d", "a", " ", "N", "o", " ", "V", "I", "S">>,
          {
                Str(
                    <<"1", ".", "0", "0", "0">>),
                Missing,
                Str(
                    <<"n", "/", "d">>)
          })
    >>

CmcMcyHeaders ==
    <<
      Header(
          <<"D", "e", "p", "a", "r", "t", "a", "m", "e", "n", "t", "o">>,
          {
                Str(
                    <<"B", "O", "G", "O", "T", "A", " ", "D", ".", " ", "C",
                      ".">>),
                Str(
                    <<" ", "B", "O", "L", "I", "V", "A", "R", " ">>),
                Str(
                    <<"C", "H", "O", "C", "O">>)
          }),
      Header(
          <<"N", "o", " ", "S", "F", "V", " ", "A", "s", "i", "g", "n", "a",
            "d", "o", "s">>,
          {
                Str(
                    <<"1", ",", "0", "0", "0">>),
                Missing
          }),
      Header(
          <<"V", "a", "l", "o", "r", " ", "A", "s", "i", "g", "n", "a", "d",
            "o">>,
          {
                Str(
                    <<"$", "5", "0", ".", "0", "0", "0", ".", "0", "0", "0">>),
                Str(
                    <<"s", "/", "i">>)
          }),
      Header(
          <<"A", "ñ", "o", " ", "d", "e", " ", "A", "s", "i", "g", "n", "a",
            "c", "i", "ó", "n">>,
          {
                Str(
                    <<"2", "0", "2", "2">>),
                Num(1899, 0, FALSE)
          })
    >>

UsedHousingHeaders ==
    <<
      Header(
          <<"A", "ñ", "o">>,
          {
                Str(
                    <<"2", "0", "2", "2">>),
                Num(1899, 0, FALSE)
          }),
      Header(
          <<"T", "r", "i", "m", "e", "s", "t", "r", "e">>,
          {
                Str(
                    <<"1">>)
          }),
      Header(
          <<"V", "I", "S", " ", "P", "o", "l", "i", "c", "í", "a", " ", "N",
            "a", "c", "i", "o", "n", "a", "l">>,
          {
                Num(3, 0, FALSE),
                Missing
          }),
      Header(
          <<"V", "I", "S", " ", "O", "t", "r", "o", "s">>,
          {
                Str(
                    <<"1", ".", "0", "0", "0">>),
                Missing
          }),
      Header(
          <<"N", "o", " ", "V", "I", "S", " ", "O", "t", "r", "o", "s">>,
          {
                Num(2, 0, FALSE),
                Missing,
                Str(
                    <<"n", "/", "d">>)
          })
    >>

HeadersOf(type) ==
    CASE type = "general" -> GeneralHeaders
      [] type = "rural" -> RuralHeaders
      [] type = "military" -> MilitaryHeaders
      [] type = "cmc_mcy" -> CmcMcyHeaders
      [] type = "used_housing" -> UsedHousingHeaders

\* A column as a reader types it: text with gaps, or numbers, which are
\* floats as soon as the column has a gap.
IsTyped(col) ==
    ~ (/\ \E i \in 1..Len(col) : col[i].kind = "str"
       /\ \E i \in 1..Len(col) : col[i].kind = "num")

Typed(col) ==
    [i \in 1..Len(col) |->
        IF col[i].kind = "num" /\ (\E j \in 1..Len(col) : col[j].kind = "nan")
        THEN [col[i] EXCEPT !.float = TRUE] ELSE col[i]]

ColumnsOver(cells) ==
    {Typed(col) : col \in {c \in [1..MaxRows -> cells] : IsTyped(c)}}

\* Every frame with some of the headers hs.
RECURSIVE FramesOver(_)
FramesOver(hs) ==
    IF hs = <<>> THEN {<<>>}
    ELSE LET rest == FramesOver(Tail(hs))
             h == Head(hs)
         IN rest \cup {Assign(g, h.name, col) :
                          g \in rest, col \in ColumnsOver(h.cells)}

RawFrames(type) == FramesOver(HeadersOf(type)) \ {<<>>}

\* The columns process_dataframe turns into numbers, by dataset_type, with
\* the column it writes each to and the characters it removes first.
Field(type, col, into, chars) ==
    [type |-> type, col |-> col, into |-> into, chars |-> chars]

NumericFields ==
    {Field("general", hogares, hogares, CommaDollarPoint),
     Field("general", valor_asignado, valor_asignado, CommaDollarPoint),
     Field("general", ano_de_asignacion, a_o_de_asignaci_n, CommaPoint),
     Field("rural", no_sfv_asignados, no_sfv_asignados, CommaDollarPoint),
     Field("rural", valor_asignado, valor_asignado, CommaDollarPoint),
     Field("rural", ano_de_asignacion, a_o_de_asignacion, CommaPoint),
     Field("military", ano, ano, CommaPoint),
     Field("military", trimestre, trimestre, <<>>),
     Field("military", housing_cols[1], housing_cols[1], CommaPoint),
     Field("cmc_mcy", no_sfv_asignados, no_sfv_asignados, CommaPoint),
     Field("cmc_mcy", valor_asignado, valor_asignado, CommaDollarPoint),
     Field("cmc_mcy", ano_de_asignacion, ano_de_asignacion, CommaPoint),
     Field("used_housing", ano, ano, CommaPoint),
     Field("used_housing", force_cols[5], force_cols[5], CommaPoint)}

\* Every text of at most CellLen characters of CellChars.
RECURSIVE Texts(_)
Texts(n) ==
    IF n = 0 THEN {<<>>}
    ELSE LET shorter == Texts(n - 1) IN
         shorter \cup {Append(s, c) : s \in shorter, c \in CellChars}

\* One numeric column of one row, holding any short text or nothing.
CellFrames(field) ==
    {Assign(<<>>, field.col, <<cell>>) :
        cell \in {Str(s) : s \in Texts(CellLen)} \cup {Missing}}

\* A loader calls process_dataframe on what it read.
ProcessDataframe ==
    /\ norm_pc = 0
    /\ DOMAIN raw_df # {}
    /\ norm_df' = process_dataframe(raw_df, dataset_type)
    /\ norm_pc' = 1
    /\ UNCHANGED <<dataset_type, raw_df>>
    /\ UNCHANGED <<clockVars, cacheVars, flagVars, passVars, loadVars,
                   metaVars, fetchVars, logVars, pc>>

\* process_dataframe is called on a frame it returned.
ProcessAgain ==
    /\ norm_pc = 1
    /\ norm_df' = process_dataframe(norm_df, dataset_type)
    /\ norm_pc' = 2
    /\ UNCHANGED <<dataset_type, raw_df>>
    /\ UNCHANGED <<clockVars, cacheVars, flagVars, passVars, loadVars,
                   metaVars, fetchVars, logVars, pc>>

(* --------------------------- specifications --------------------------- *)

\* What one session can do on the General path, with the categories its
\* user picks from and the responses the network gives.
Step(s, categories, metas, outcomes) ==
    \/ \E c \in categories : StartPass(s, c)
    \/ ClickRefresh(s)
    \/ LoadData(s)
    \/ \E resp \in metas : MetaResponse(s, resp)
    \/ Compare(s)
    \/ \E out \in outcomes : PageRequest(s, out)
    \/ ApiReturn(s)
    \/ \E ok \in BOOLEAN : CsvResponse(s, ok)
    \/ RerunAfterForce(s)
    \/ StopNoData(s)
    \/ Display(s)
    \/ RefreshHandler(s)

\* Metadata that names its date in rowsUpdatedAt: before and after CSV_DATE.
PlainMetas ==
    {[ok |-> FALSE]} \cup
    {[ok |-> TRUE, rowsUpdatedAt |-> FieldTs(t), dataUpdatedAt |-> FieldAbsent] :
        t \in {1767268800, 1772366400}}

\* A fetch of one request: an empty page, a short page or a failure.
OnePageOutcomes ==
    {[kind |-> "data", n |-> n] : n \in {0, ShortPage}} \cup
    {[kind |-> "fail", err |-> "timeout"]}

\* One session, every category.
Next ==
    \/ Step("s1", Categories, PlainMetas, OnePageOutcomes)
    \/ DispatchSnapshot("s1")

Spec == Init /\ [][Next]_vars

\* One session in the General or the Rural view, every metadata response
\* and every course of the pagination.
NextGeneral ==
    \/ Step("s1", {"general", "rural"}, MetaResponses, PageOutcomes)
    \/ DispatchSnapshot("s1")

SpecGeneral == Init /\ [][NextGeneral]_vars

\* One session in the General or the Rural view while the clock runs.
NextClock ==
    \/ Step("s1", {"general", "rural"}, PlainMetas, OnePageOutcomes)
    \/ DispatchSnapshot("s1")
    \/ Tick

SpecClock == Init /\ [][NextClock]_vars

\* Two sessions in the General view at the same time; there the dispatch
\* always calls load_data.
NextConc == \E s \in Sessions : Step(s, {"general"}, PlainMetas, OnePageOutcomes)

SpecConc == Init /\ [][NextConc]_vars

\* A fetch that can be cut short after a full page: a full, a short or an
\* empty page, or a failure.
AbortOutcomes ==
    {[kind |-> "data", n |-> n] : n \in {0, ShortPage, Limit}} \cup
    {[kind |-> "fail", err |-> "timeout"]}

\* One session in the General or the Rural view while the clock runs, with
\* fetches of more than one page.
NextDegraded ==
    \/ Step("s1", {"general", "rural"}, PlainMetas, AbortOutcomes)
    \/ DispatchSnapshot("s1")
    \/ Tick

SpecDegraded == Init /\ [][NextDegraded]_vars

\* The General or the Rural view when every page request comes back (with
\* rows, or with the exception its timeout of 30 seconds ends in at the
\* latest) and the interpreter goes on from the loop to the return.
FairFetch ==
    /\ WF_vars(\E out \in PageOutcomes : PageRequest("s1", out))
    /\ WF_vars(ApiReturn("s1"))

SpecFetch == Init /\ [][NextGeneral]_vars /\ FairFetch

\* process_dataframe on the frames of every category.
InitNormalize ==
    /\ InitSessions
    /\ tz = 0
    /\ dataset_type \in Categories
    /\ raw_df \in RawFrames(dataset_type)
    /\ norm_df = <<>>
    /\ norm_pc = 0

NextNormalize == ProcessDataframe \/ ProcessAgain

SpecNormalize == InitNormalize /\ [][NextNormalize]_vars

\* process_dataframe on one cell of one numeric column.
InitCoerce ==
    /\ InitSessions
    /\ tz = 0
    /\ \E field \in NumericFields :
          /\ dataset_type = field.type
          /\ raw_df \in CellFrames(field)
    /\ norm_df = <<>>
    /\ norm_pc = 0

SpecCoerce == InitCoerce /\ [][NextNormalize]_vars

(* ------------------------------- claims ------------------------------- *)

\* The session's load has returned to the script in this pass.
Returned(s) == passes[s] > 0 /\ pc[s] \in {"after_load", "rerun", "idle"}

\* The body of fetch_data_from_api ran in this pass of s.
SweptApi(s) == \E i \in 1..Len(fetched[s]) : fetched[s][i] = "fetch_data_from_api"

\* The last page request of s came back as a failure.
Aborted(s) ==
    /\ responses[s] # <<>>
    /\ responses[s][Len(responses[s])].kind = "fail"

FullPage == [kind |-> "data", n |-> 900]

\* The sizes of the pages the requests of s came back with.
PageSizesSeen(s) ==
    [k \in 1..Len(responses[s]) |->
        IF responses[s][k].kind = "data" THEN responses[s][k].n ELSE -1]

\* C1: the page requests of one fetch go out one at a time, the k-th with
\* limit 900 and offset 900*(k-1); every request but the last came back
\* with a full page, so none follows a page of fewer than 900 rows or of
\* none, and the loop leaves only on such a page or a failure; pages of
\* 900, 900, 400 rows and of 900, 900, 0 rows end the fetch at 3 requests.
C1_Pagination ==
    \A s \in Sessions :
        LET n == Len(requests[s]) IN
        /\ Len(responses[s]) = n
        /\ \A k \in 1..n :
              requests[s][k] = [limit |-> 900, offset |-> 900 * (k - 1)]
        /\ \A k \in 1..(n - 1) : responses[s][k] = FullPage
        /\ (n > 0 /\ pc[s] # "in_api") => responses[s][n] # FullPage
        /\ (n > 0 /\ responses[s][n] # FullPage) => pc[s] # "in_api"
        /\ PageSizesSeen(s) \in {<<900, 900, 400>>, <<900, 900, 0>>}
              => n = 3 /\ pc[s] # "in_api"

\* A fetch of pages of 900, 900 and 400 rows has returned.
C1_Witness ==
    \E s \in Sessions :
        /\ pc[s] = "after_load"
        /\ PageSizesSeen(s) = <<900, 900, 400>>
        /\ Len(requests[s]) = 3
        /\ Len(df[s].rows) = 2200

\* The first m rows of the server, in the server's order.
FirstRows(m) == [i \in 1..m |-> i]

\* C2: when the k-th page request fails, pagination has stopped (that
\* request is the last one, it is not retried), the rows gathered are
\* those of pages 1..k-1 in order, each once, and the fetch returns them
\* to load_data as the API frame: the pass goes on, nothing is raised.
C2_PartialKept ==
    \A s \in Sessions :
        Aborted(s) =>
            LET k == Len(responses[s]) IN
            /\ pc[s] \in {"api_exit", "after_load", "rerun", "idle"}
            /\ Len(requests[s]) = k
            /\ \A j \in 1..(k - 1) : responses[s][j] = FullPage
            /\ all_data[s] = FirstRows(900 * (k - 1))
            /\ Returned(s) =>
                  /\ df[s].rows = FirstRows(900 * (k - 1))
                  /\ data_source[s] = "API"

\* The third request failed and the fetch returned the 1800 rows before it.
C2_Witness ==
    \E s \in Sessions :
        /\ Aborted(s)
        /\ Len(responses[s]) = 3
        /\ pc[s] = "after_load"
        /\ Len(df[s].rows) = 1800

\* C3: a fetch whose pagination a failed request cut short has shown the
\* API error, and a fetch that ended on a short or empty page has not: the
\* error is what tells the two apart, also for the entry the cache keeps.
C3_PartialMarked ==
    \A s \in Sessions :
        /\ pc[s] = "in_api" => "api_error" \notin messages[s]
        /\ (SweptApi(s) /\ pc[s] # "in_api") =>
              (("api_error" \in messages[s]) <=> Aborted(s))
        /\ (SweptApi(s) /\ pc[s] = "after_load") =>
              /\ cache["fetch_data_from_api"].present
              /\ ("api_error" \in cache["fetch_data_from_api"].msgs) <=> Aborted(s)

\* A fetch returned 900 rows after its second request failed.
C3_Witness ==
    \E s \in Sessions :
        /\ Aborted(s)
        /\ pc[s] = "after_load"
        /\ Len(df[s].rows) = 900
        /\ "api_error" \in messages[s]

RECURSIVE RowsThrough(_, _)
\* The rows of the first k responses of r.
RowsThrough(r, k) ==
    IF k = 0 THEN 0
    ELSE (IF r[k].kind = "data" THEN r[k].n ELSE 0) + RowsThrough(r, k - 1)

\* C4: every page that brought rows is followed by a status text with the
\* running total of rows gathered so far, and the fetch closes with a text
\* that carries the final total (the only text after an empty page); the
\* totals shown never decrease, and each page's total exceeds the one before.
C4_Progress ==
    \A s \in Sessions :
        LET p == progress[s]
            r == responses[s]
        IN
        /\ \A i \in 1..(Len(p) - 1) :
              /\ p[i].total <= p[i + 1].total
              /\ p[i + 1].text = "Cargados" => p[i].total < p[i + 1].total
        /\ \A k \in 1..Len(r) :
              (r[k].kind = "data" /\ r[k].n > 0) =>
                  /\ Len(p) >= k
                  /\ p[k] = [text |-> "Cargados", total |-> RowsThrough(r, k)]
        /\ (SweptApi(s) /\ Returned(s)) =>
              /\ p # <<>>
              /\ p[Len(p)] = [text |-> "Carga completa",
                              total |-> RowsThrough(r, Len(r))]
              /\ RowsThrough(r, Len(r)) = Len(df[s].rows)

\* A fetch of three pages showed 900, 1800, 2200 and closed on 2200.
C4_Witness ==
    \E s \in Sessions :
        /\ pc[s] = "after_load"
        /\ Len(progress[s]) = 4
        /\ progress[s][1].total = 900
        /\ progress[s][2].total = 1800
        /\ progress[s][3].total = 2200
        /\ progress[s][4] = [text |-> "Carga completa", total |-> 2200]

\* The number an eight-digit date string spells.
DateNumber(d) ==
    d[1] * 10000000 + d[2] * 1000000 + d[3] * 100000 + d[4] * 10000
        + d[5] * 1000 + d[6] * 100 + d[7] * 10 + d[8]

\* The pass of s called load_data without force and it chose a loader.
Arbitrated(s) ==
    /\ subsidy_type[s] = "general"
    /\ Len(called[s]) = 2
    /\ called[s][1] = "get_api_last_update"

\* C5: General without force: load_data calls the API fetcher exactly when
\* get_api_last_update gave a date and that date, read as a number, is
\* above 20260217; otherwise (equal, older, none) it calls the General
\* snapshot loader and returns "CSV" with the date 20260217.
C5_Arbiter ==
    \A s \in Sessions :
        /\ (subsidy_type[s] = "general" /\ Returned(s) /\ Len(called[s]) = 2)
              => called[s][1] = "get_api_last_update"
        /\ Arbitrated(s) =>
              LET newer == /\ ~api_date[s].isNone
                           /\ DateNumber(api_date[s].val) > 20260217
              IN
              /\ called[s][2] = IF newer THEN "fetch_data_from_api"
                                ELSE "load_csv_data"
              /\ Returned(s) =>
                    IF newer
                    THEN /\ data_source[s] = "API"
                         /\ data_date[s] = api_date[s].val
                    ELSE /\ data_source[s] = "CSV"
                         /\ data_date[s] = <<2, 0, 2, 6, 0, 2, 1, 7>>

\* The API's date equals the snapshot's and the snapshot was loaded.
C5_Witness ==
    \E s \in Sessions :
        /\ Arbitrated(s)
        /\ pc[s] = "after_load"
        /\ api_date[s] = Some(<<2, 0, 2, 6, 0, 2, 1, 7>>)
        /\ data_source[s] = "CSV"

\* C6: General with the force flag set: the pass calls fetch_data_from_api
\* and nothing else, it neither asks for nor holds a metadata date, and
\* load_data returns "API" with the date of the clock at that moment.
C6_Forced ==
    \A s \in Sessions :
        (/\ subsidy_type[s] = "general"
         /\ force_refresh[s]
         /\ pc[s] \in {"in_api", "api_exit", "after_load"}) =>
            /\ called[s] = <<"fetch_data_from_api">>
            /\ \A i \in 1..Len(fetched[s]) : fetched[s][i] # "get_api_last_update"
            /\ api_date[s] = NoneVal
            /\ metadata[s] = NoResponse
            /\ pc[s] = "after_load" =>
                  /\ data_source[s] = "API"
                  /\ data_date[s] = StrfTime(now, tz)

\* A forced load returned after the clock passed midnight UTC.
C6_Witness ==
    \E s \in Sessions :
        /\ subsidy_type[s] = "general"
        /\ force_refresh[s]
        /\ pc[s] = "after_load"
        /\ data_source[s] = "API"
        /\ data_date[s] = <<2, 0, 2, 6, 1, 1, 0, 6>>

\* The pass of s has the answer of the metadata request.
Answered(s) == metadata[s] # NoResponse

\* C7 as stated: the date is the one of rowsUpdatedAt when that field gives
\* a timestamp, else the one of dataUpdatedAt when that gives one, and None
\* only when the request failed or neither field gives a timestamp.
C7_AsStated ==
    \A s \in Sessions :
        Answered(s) =>
            LET m == metadata[s] IN
            IF ~m.ok THEN api_date[s] = NoneVal
            ELSE IF m.rowsUpdatedAt.kind = "ts"
            THEN api_date[s] = Some(StrfTime(m.rowsUpdatedAt.v, tz))
            ELSE IF m.dataUpdatedAt.kind = "ts"
            THEN api_date[s] = Some(StrfTime(m.dataUpdatedAt.v, tz))
            ELSE api_date[s] = NoneVal

\* C7: get_api_last_update always returns into load_data; its date is the
\* one of rowsUpdatedAt whenever that field is there with a timestamp, the
\* one of dataUpdatedAt when rowsUpdatedAt is absent and dataUpdatedAt has
\* a timestamp, and None when the request failed, when the field it reads
\* holds no timestamp (whatever the other field holds) or when both are
\* absent; on None load_data calls the General snapshot loader.
C7_Metadata ==
    \A s \in Sessions :
        /\ Answered(s) =>
              LET m == metadata[s] IN
              /\ pc[s] \in {"compare", "in_api", "api_exit", "in_csv",
                            "after_load", "rerun", "idle"}
              /\ ~m.ok => api_date[s] = NoneVal
              /\ (m.ok /\ m.rowsUpdatedAt.kind = "ts") =>
                    api_date[s] = Some(StrfTime(m.rowsUpdatedAt.v, tz))
              /\ (m.ok /\ m.rowsUpdatedAt.kind = "null") => api_date[s] = NoneVal
              /\ (m.ok /\ m.rowsUpdatedAt.kind = "absent"
                       /\ m.dataUpdatedAt.kind = "ts") =>
                    api_date[s] = Some(StrfTime(m.dataUpdatedAt.v, tz))
              /\ (m.ok /\ m.rowsUpdatedAt.kind = "absent"
                       /\ m.dataUpdatedAt.kind # "ts") => api_date[s] = NoneVal
        /\ (Arbitrated(s) /\ api_date[s] = NoneVal) =>
              called[s][2] = "load_csv_data"

\* rowsUpdatedAt is there without a timestamp, dataUpdatedAt has one, and
\* the pass loaded the snapshot on a date of None.
C7_Witness ==
    \E s \in Sessions :
        /\ Answered(s)
        /\ metadata[s].ok
        /\ metadata[s].rowsUpdatedAt.kind = "null"
        /\ metadata[s].dataUpdatedAt.kind = "ts"
        /\ api_date[s] = NoneVal
        /\ pc[s] = "after_load"
        /\ data_source[s] = "CSV"

\* The loader and the label the dispatch gives each category but General.
SnapshotLoader ==
    [rural |-> "load_csv_rural_data", military |-> "load_csv_military_data",
     cmc_mcy |-> "load_csv_cmc_mcy_data",
     used_housing |-> "load_csv_used_housing_data"]

\* C8: in a pass of Rural, Military, CMC-MCY or Vivienda Usada, whatever
\* force_refresh holds, the only cached function called and the only body
\* run is the category's own snapshot loader: no page request, no metadata
\* request; and the as-of date of the load is 20260217.
C8_SnapshotOnly ==
    \A s \in Sessions :
        subsidy_type[s] # "general" =>
            LET own == SnapshotLoader[subsidy_type[s]] IN
            /\ \A i \in 1..Len(called[s]) : called[s][i] = own
            /\ \A i \in 1..Len(fetched[s]) : fetched[s][i] = own
            /\ requests[s] = <<>>
            /\ metadata[s] = NoResponse
            /\ api_date[s] = NoneVal
            /\ pc[s] \in {"in_csv", "after_load", "rerun", "idle"} =>
                  called[s] = <<own>>
            /\ Returned(s) => data_date[s] = <<2, 0, 2, 6, 0, 2, 1, 7>>

\* A Vivienda Usada pass loaded its snapshot while force_refresh was set.
C8_Witness ==
    \E s \in Sessions :
        /\ subsidy_type[s] = "used_housing"
        /\ force_refresh[s]
        /\ pc[s] = "after_load"
        /\ called[s] = <<"load_csv_used_housing_data">>
        /\ data_date[s] = <<2, 0, 2, 6, 0, 2, 1, 7>>

\* The pass of s and the one before it were both load_data without force,
\* the earlier one ran both bodies, and its start is less than an hour back.
TwoLoadsInWindow(s) ==
    /\ prev[s].some
    /\ prev[s].cat = "general"
    /\ prev[s].source # ""
    /\ Len(prev[s].fetched) = 2
    /\ Arbitrated(s)
    /\ Returned(s)
    /\ now < prev[s].at + 3600

\* C9: the second of two General loads without force inside the hour of
\* the first runs no body at all: it makes the same calls and gets the
\* same frame, label and date from the cache, so the two loads together
\* made one metadata query and one dataset fetch; and no body runs twice
\* less than an hour apart unless the cache was cleared in between.
C9_CachedReload ==
    /\ \A s \in Sessions :
          TwoLoadsInWindow(s) =>
              /\ fetched[s] = <<>>
              /\ called[s] = prev[s].called
              /\ prev[s].fetched = <<"get_api_last_update", called[s][2]>>
              /\ df[s] = prev[s].frame
              /\ data_source[s] = prev[s].source
              /\ data_date[s] = prev[s].date
    /\ \A k \in Keys :
          Len(fetch_log[k]) = 2 => fetch_log[k][2] - fetch_log[k][1] >= 3600

\* The second load came half an hour after the first and ran no body.
C9_Witness ==
    \E s \in Sessions :
        /\ TwoLoadsInWindow(s)
        /\ passes[s] = 2
        /\ now > prev[s].at
        /\ fetched[s] = <<>>
        /\ df[s].rows # <<>>

\* Session s is running the body of the cached function k.
Running(s, k) ==
    \/ k = "get_api_last_update" /\ pc[s] = "in_meta"
    \/ k = "fetch_data_from_api" /\ pc[s] \in {"in_api", "api_exit"}
    \/ /\ pc[s] = "in_csv"
       /\ k = (IF subsidy_type[s] = "general" THEN "load_csv_data"
               ELSE SnapshotLoader[subsidy_type[s]])

\* C10: no two sessions run the body of the same cached function at the
\* same time; in particular never two pagination sweeps at once.
C10_SingleFlight ==
    \A k \in Keys :
        Cardinality({s \in Sessions : Running(s, k)}) <= 1

\* C11: after the refresh handler ran, every entry the cache serves was
\* computed after it, for the metadata and for every category: no key has
\* an entry without a body run since the last clear(), the handler's step
\* leaves no entry at all, and the forced load that follows runs the
\* fetcher's body instead of being served.
C11_WholeCacheCleared ==
    /\ \A k \in Keys : cache[k].present => fetch_log[k] # <<>>
    /\ \A s \in Sessions :
          (pc[s] = "rerun" /\ force_refresh[s] /\ called[s] # <<>>
               /\ fetched[s] = <<>> /\ clicked[s]) =>
              \A k \in Keys : ~cache[k].present
    /\ \A s \in Sessions :
          (subsidy_type[s] = "general" /\ force_refresh[s]
               /\ pc[s] = "after_load") =>
              fetched[s] = <<"fetch_data_from_api">>

\* The first ordinary General pass after a refresh asked the metadata
\* endpoint again, although the pass before the refresh had cached it.
C11_Witness ==
    \E s \in Sessions :
        /\ passes[s] = 4
        /\ prev[s].some
        /\ prev[s].called = <<"fetch_data_from_api">>
        /\ subsidy_type[s] = "general"
        /\ Returned(s)
        /\ Len(fetched[s]) >= 1
        /\ fetched[s][1] = "get_api_last_update"

\* C12: a pass whose load came back with zero records ends in the no-data
\* error state: once the script has run to its end or asked for a rerun,
\* an empty frame means the error was shown and nothing else rendered.
C12_ZeroRecordsStop ==
    \A s \in Sessions :
        (pc[s] \in {"idle", "rerun"} /\ data_source[s] # ""
             /\ df[s].rows = <<>>) =>
            /\ view[s] = "no_data"
            /\ "no_data" \in messages[s]

\* year_col, lines 422-427
YearColumn(type) ==
    IF type \in {"military", "used_housing"} THEN ano
    ELSE IF type \in {"rural", "cmc_mcy"} THEN ano_de_asignacion
    ELSE a_o_de_asignaci_n

\* beneficiary_col, lines 596-603
BeneficiaryColumn(type) ==
    IF type \in {"military", "used_housing"} THEN total_subsidios
    ELSE IF type \in {"rural", "cmc_mcy"} THEN no_sfv_asignados
    ELSE hogares

\* The frame handed to process_dataframe, under its canonical names.
RawCanonical == Renamed(raw_df)

\* The field of NumericFields the one-column frame of raw_df holds.
TheField ==
    CHOOSE field \in NumericFields :
        field.type = dataset_type /\ field.col \in DOMAIN raw_df

OnlyDigitsAndSeparators(s) ==
    /\ \A i \in 1..Len(s) : IsDigit(s[i]) \/ s[i] \in {",", ".", "$"}
    /\ \E i \in 1..Len(s) : IsDigit(s[i])

\* C13: process_dataframe on one cell of a numeric column: a text made of
\* digits and of ',', '.' and '$' gives the whole number its digits
\* spell; the empty text, a text with anything else in it and NaN give
\* NaN.
C13_Coercion ==
    (norm_pc = 1 /\ Cardinality(DOMAIN raw_df) = 1) =>
        LET cell == raw_df[TheField.col][1]
            got == norm_df[TheField.into][1]
        IN IF cell.kind = "nan" THEN got = Missing
           ELSE IF OnlyDigitsAndSeparators(cell.s)
           THEN /\ got.kind = "num"
                /\ got.d = 0
                /\ got.v = DigitsValue(SelectSeq(cell.s, IsDigit))
           ELSE got = Missing

\* The same for the columns whose coercion removes all three characters.
C13_WhereDollarIsRemoved ==
    (norm_pc = 1 /\ Cardinality(DOMAIN raw_df) = 1
         /\ TheField.chars = CommaDollarPoint) => C13_Coercion

\* C14: after process_dataframe the year column of the category holds no
\* number of 1900 or less: such a year has become NaN.
C14_YearFloor ==
    (norm_pc = 1 /\ YearColumn(dataset_type) \in DOMAIN norm_df) =>
        \A i \in 1..NRows(norm_df) :
            LET year == norm_df[YearColumn(dataset_type)][i] IN
            year.kind = "num" => year.v > 1900

\* The declared numeric columns of a category: the ones process_dataframe
\* coerces or derives, and the year and beneficiary columns the script
\* reads afterwards.
DeclaredNumeric(type) ==
    {field.col : field \in {x \in NumericFields : x.type = type}}
        \cup {YearColumn(type), BeneficiaryColumn(type)}
        \cup (IF type = "military" THEN {total_subsidios}
              ELSE IF type = "used_housing"
              THEN {total_subsidios, total_vis, total_no_vis}
              ELSE {})

\* C15: after process_dataframe every declared numeric column that is
\* there holds numbers and NaN only, in every category.
C15_NumericColumns ==
    norm_pc = 1 =>
        \A c \in DeclaredNumeric(dataset_type) \cap DOMAIN norm_df :
            \A i \in 1..NRows(norm_df) : IsNumeric(norm_df[c][i])

\* The columns of the category's sub-counts.
SubColumns(type) ==
    IF type = "military" THEN housing_cols
    ELSE IF type = "used_housing" THEN force_cols
    ELSE <<>>

\* The sum of the numbers among the cells of row i in the columns named.
RECURSIVE TotalOf(_, _, _)
TotalOf(f, names, i) ==
    IF names = <<>> THEN 0
    ELSE (IF Head(names) \in DOMAIN f /\ f[Head(names)][i].kind = "num"
          THEN f[Head(names)][i].v ELSE 0)
         + TotalOf(f, Tail(names), i)

IsVisName(n) == StartsWith(n, <<"v", "i", "s", "_">>)

\* C16: each derived total is, row by row, a number: the sum of the
\* sub-columns that are there, a NaN among them counting 0.  Military has
\* total_subsidios over housing_cols; Vivienda Usada has total_vis over
\* the vis_ columns, total_no_vis over the no_vis_ columns and
\* total_subsidios over all of force_cols.
C16_Totals ==
    norm_pc = 1 =>
        \A i \in 1..NRows(norm_df) :
            /\ (dataset_type \in {"military", "used_housing"}
                    /\ total_subsidios \in DOMAIN norm_df) =>
                  /\ norm_df[total_subsidios][i].kind = "num"
                  /\ norm_df[total_subsidios][i].v =
                        TotalOf(norm_df, SubColumns(dataset_type), i)
            /\ (dataset_type = "used_housing"
                    /\ total_vis \in DOMAIN norm_df) =>
                  /\ norm_df[total_vis][i].kind = "num"
                  /\ norm_df[total_vis][i].v =
                        TotalOf(norm_df, SelectSeq(force_cols, IsVisName), i)
            /\ (dataset_type = "used_housing"
                    /\ total_no_vis \in DOMAIN norm_df) =>
                  /\ norm_df[total_no_vis][i].kind = "num"
                  /\ norm_df[total_no_vis][i].v =
                        TotalOf(norm_df, force_cols, i)
                            - TotalOf(norm_df,
                                      SelectSeq(force_cols, IsVisName), i)

\* A Military row with nueva_vis 3 and usada_no_vis NaN has the total 3.
C16_Witness ==
    /\ norm_pc = 1
    /\ dataset_type = "military"
    /\ {housing_cols[1], housing_cols[4]} \subseteq DOMAIN norm_df
    /\ \E i \in 1..NRows(norm_df) :
          /\ norm_df[housing_cols[1]][i].kind = "num"
          /\ norm_df[housing_cols[1]][i].v = 3
          /\ norm_df[housing_cols[4]][i] = Missing
          /\ norm_df[total_subsidios][i].kind = "num"
          /\ norm_df[total_subsidios][i].v = 3

\* C17: a Military or Vivienda Usada frame without any of its sub-count
\* columns comes out of process_dataframe with the category's derived
\* totals, zero in every row.
C17_ZeroTotals ==
    (/\ norm_pc = 1
     /\ dataset_type \in {"military", "used_housing"}
     /\ \A j \in 1..Len(SubColumns(dataset_type)) :
            SubColumns(dataset_type)[j] \notin DOMAIN RawCanonical) =>
        \A total \in (IF dataset_type = "military" THEN {total_subsidios}
                       ELSE {total_subsidios, total_vis, total_no_vis}) :
            /\ total \in DOMAIN norm_df
            /\ \A i \in 1..NRows(norm_df) :
                  norm_df[total][i].kind = "num" /\ norm_df[total][i].v = 0

\* The Military half of it.
C17_MilitaryZeroTotal ==
    dataset_type = "military" => C17_ZeroTotals

\* C18: the columns of process_dataframe's output are the canonical names
\* of the input's columns and, beyond them, derived totals only.
C18_Columns ==
    norm_pc = 1 =>
        /\ DOMAIN RawCanonical \subseteq DOMAIN norm_df
        /\ DOMAIN norm_df \subseteq
              DOMAIN RawCanonical \cup {total_subsidios, total_vis, total_no_vis}

\* The same apart from the copy of the year that General and Rural write.
C18_ColumnsButYearCopy ==
    norm_pc = 1 =>
        /\ DOMAIN RawCanonical \subseteq DOMAIN norm_df
        /\ DOMAIN norm_df \subseteq
              DOMAIN RawCanonical
                  \cup {total_subsidios, total_vis, total_no_vis}
                  \cup {a_o_de_asignaci_n, a_o_de_asignacion}

\* C19: a column name that came out of the canonicalization is left as it
\* is by another canonicalization: the names of a frame process_dataframe
\* returned are their own canonical names, and a second process_dataframe
\* keeps each of them.
C19_CanonicalIdempotent ==
    /\ norm_pc >= 1 =>
          /\ \A n \in DOMAIN norm_df : CanonicalName(n) = n
          /\ \A n \in DOMAIN raw_df :
                CanonicalName(CanonicalName(n)) = CanonicalName(n)
    /\ norm_pc = 2 =>
          DOMAIN process_dataframe(raw_df, dataset_type) \subseteq DOMAIN norm_df

\* A second pass over a frame whose header 'Valor - Asignado' had become
\* valor_asignado.
C19_Witness ==
    /\ norm_pc = 2
    /\ dataset_type = "rural"
    /\ valor_asignado \in DOMAIN norm_df
    /\ valor_asignado \notin DOMAIN raw_df
    /\ \E n \in DOMAIN raw_df :
          /\ CanonicalName(n) = valor_asignado
          /\ Len(n) = Len(valor_asignado) + 2

\* The value of column c in row i is the text s.
IsText(f, c, i, s) == f[c][i].kind = "str" /\ f[c][i].s = s

IsWhole(f, c, i, v) ==
    f[c][i].kind = "num" /\ f[c][i].v = v /\ f[c][i].d = 0

BOGOTA == <<"B", "O", "G", "O", "T", "A", " ", "D", ".", " ", "C", ".">>

BOGOTA_accented == <<"B", "O", "G", "O", "T", "Á", ",", " ", "D", ".", "C", ".">>

BOLIVAR_padded == <<" ", "B", "O", "L", "I", "V", "A", "R", " ">>

BOLIVAR_accented == <<"B", "O", "L", "Í", "V", "A", "R">>

CHOCO == <<"C", "H", "O", "C", "O">>

\* C20: for Mejoramiento CMC-MCY every departamento comes out trimmed,
\* an unaccented name of dept_mapping in its accented form and any other
\* name as it was, and no_sfv_asignados and valor_asignado come out as
\* numbers: 'BOGOTA D. C.', '1,000' and '$50.000.000' become
\* 'BOGOTÁ, D.C.', 1000 and 50000000.
C20_CmcMcy ==
    (norm_pc = 1 /\ dataset_type = "cmc_mcy") =>
        \A i \in 1..NRows(norm_df) :
            /\ departamento \in DOMAIN norm_df =>
                  LET was == RawCanonical[departamento][i].s
                      is == norm_df[departamento][i]
                  IN /\ is.kind = "str"
                     /\ is.s # <<>> => (is.s[1] # " " /\ is.s[Len(is.s)] # " ")
                     /\ \A j \in 1..Len(dept_mapping) : is.s # dept_mapping[j][1]
                     /\ was = BOGOTA => is.s = BOGOTA_accented
                     /\ was = BOLIVAR_padded => is.s = BOLIVAR_accented
                     /\ was = CHOCO => is.s = CHOCO
            /\ no_sfv_asignados \in DOMAIN norm_df =>
                  /\ IsNumeric(norm_df[no_sfv_asignados][i])
                  /\ IsText(RawCanonical, no_sfv_asignados, i,
                            <<"1", ",", "0", "0", "0">>)
                        => IsWhole(norm_df, no_sfv_asignados, i, 1000)
            /\ valor_asignado \in DOMAIN norm_df =>
                  /\ IsNumeric(norm_df[valor_asignado][i])
                  /\ IsText(RawCanonical, valor_asignado, i,
                            <<"$", "5", "0", ".", "0", "0", "0", ".", "0", "0",
                              "0">>)
                        => IsWhole(norm_df, valor_asignado, i, 50000000)

\* The row of the example, next to a row whose department has blanks
\* around it.
C20_Witness ==
    /\ norm_pc = 1
    /\ dataset_type = "cmc_mcy"
    /\ {departamento, no_sfv_asignados, valor_asignado} \subseteq DOMAIN norm_df
    /\ \E i \in 1..NRows(norm_df) :
          /\ RawCanonical[departamento][i].s = BOGOTA
          /\ IsText(norm_df, departamento, i, BOGOTA_accented)
          /\ IsWhole(norm_df, no_sfv_asignados, i, 1000)
          /\ IsWhole(norm_df, valor_asignado, i, 50000000)
    /\ \E i \in 1..NRows(norm_df) :
          /\ RawCanonical[departamento][i].s = BOLIVAR_padded
          /\ IsText(norm_df, departamento, i, BOLIVAR_accented)

\* The pass before this one of s was the forced load the button started:
\* a General pass whose only call was fetch_data_from_api.
AfterForcedLoad(s) ==
    /\ prev[s].some
    /\ prev[s].cat = "general"
    /\ prev[s].called = <<"fetch_data_from_api">>

\* C21: after the refresh button, the next General pass that displays data
\* shows the frame the forced fetch_data_from_api returned, labelled "API",
\* whatever the metadata date is; and force_refresh is False in every pass
\* that displays.
C21_ForcedShown ==
    \A s \in Sessions :
        /\ view[s] = "data" => ~force_refresh[s]
        /\ (subsidy_type[s] = "general" /\ view[s] = "data"
                /\ AfterForcedLoad(s)) =>
              /\ data_source[s] = "API"
              /\ df[s] = prev[s].frame

\* The forced load itself always comes from fetch_data_from_api with the
\* label "API", its pass ends in st.rerun() with force_refresh False, and
\* no pass renders anything while force_refresh is True.
C21_FlagConsumed ==
    \A s \in Sessions :
        /\ view[s] # "none" => ~force_refresh[s]
        /\ AfterForcedLoad(s) =>
              /\ prev[s].source = "API"
              /\ prev[s].view = "none"
              /\ ~force_refresh[s]

\* Two cells hold the same number, whatever their dtypes.
SameNumber(a, b) ==
    /\ a.kind = "num"
    /\ b.kind = "num"
    /\ a.v * Pow10(b.d) = b.v * Pow10(a.d)

\* The frame process_dataframe is about to be applied to, under the names
\* its branches look columns up by.
FrameBefore == IF norm_pc = 0 THEN RawCanonical ELSE norm_df

\* Every call of process_dataframe leaves the numbers in the numeric
\* columns of the category as they were: those of int64 columns, and with
\* floats also those of float64 columns.
NumbersKept(floats) ==
    \A field \in NumericFields :
        (field.type = dataset_type /\ field.col \in DOMAIN FrameBefore) =>
            \A i \in 1..NRows(FrameBefore) :
                LET cell == FrameBefore[field.col][i] IN
                (cell.kind = "num" /\ (floats \/ ~cell.float)) =>
                    SameNumber(norm_df'[field.into][i], cell)

\* C22: a cell of a numeric column that already holds a number, an int or
\* a float, holds the same number after process_dataframe, on a frame as
\* read and on a frame process_dataframe itself returned.
C22_NumericPreserved ==
    [][NumbersKept(TRUE)]_vars

\* The same for the cells of int64 columns only.
C22_IntegersPreserved ==
    [][NumbersKept(FALSE)]_vars

\* A result of the cached function k that is not what a good fetch gives:
\* no date from the metadata query, an empty frame from a loader, or a
\* frame of a pagination that was cut short by a failed request.
Degraded(k, v, msgs) ==
    IF k = "get_api_last_update" THEN v = NoneVal
    ELSE v.rows = <<>> \/ "api_error" \in msgs

\* What the caller of k holds in session s once k has returned.
Handed(s, k) == IF k = "get_api_last_update" THEN api_date[s] ELSE df[s]

\* The body of k, run by session s, returns in this step.
BodyReturns(s, k) ==
    /\ Running(s, k)
    /\ pc[s] # "in_api"
    /\ pc'[s] \in {"compare", "after_load"}

\* Session s calls the cached function k in this step.
Calls(s, k) == called'[s] = Append(called[s], k)

\* C23: a degraded result (None from the metadata query, an empty frame,
\* the frame of an aborted pagination) is cached like any other: the body
\* that returns it stores it; a call of the same function less than 3600
\* seconds after that gets the stored result and its messages back and
\* runs no body and sends no request; and the entry stays as it is until
\* it is 3600 seconds old or the refresh button clears the cache.
C23_DegradedCached ==
    [][\A s \in Sessions, k \in Keys :
          /\ (BodyReturns(s, k) /\ ~orphan[s]
                  /\ Degraded(k, Handed(s, k)', messages'[s])) =>
                /\ cache'[k].present
                /\ cache'[k].value = Handed(s, k)'
                /\ cache'[k].created = now
          /\ (Calls(s, k) /\ cache[k].present
                  /\ now < cache[k].created + 3600
                  /\ Degraded(k, cache[k].value, cache[k].msgs)) =>
                /\ fetched'[s] = fetched[s]
                /\ requests'[s] = requests[s]
                /\ metadata'[s] = metadata[s]
                /\ pc'[s] \in {"compare", "after_load"}
                /\ Handed(s, k)' = cache[k].value
                /\ cache[k].msgs \subseteq messages'[s]
                /\ cache' = cache
          /\ (cache[k].present /\ cache'[k] # cache[k]
                  /\ Degraded(k, cache[k].value, cache[k].msgs)) =>
                \/ now' >= cache[k].created + 3600
                \/ \E t \in Sessions : force_refresh'[t] /\ ~force_refresh[t]
      ]_vars

\* A pagination was cut short after its first full page; half an hour
\* later the next pass got those 900 rows and the error message from the
\* cache, without running a body, and displayed them.
C23_Witness ==
    \E s \in Sessions :
        /\ prev[s].some
        /\ prev[s].fetched = <<"get_api_last_update", "fetch_data_from_api">>
        /\ now = prev[s].at + 1800
        /\ called[s] = <<"get_api_last_update", "fetch_data_from_api">>
        /\ fetched[s] = <<>>
        /\ requests[s] = <<>>
        /\ "api_error" \in messages[s]
        /\ Len(df[s].rows) = 900
        /\ df[s] = prev[s].frame
        /\ view[s] = "data"

\* C24: fetch_data_from_api asks for no offset twice and sends nothing
\* after a request that failed or that came back with fewer than 900
\* rows; and a fetch in which such a request comes leaves its loop and
\* returns to load_data.
C24_Terminates ==
    /\ [](\A s \in Sessions :
            LET n == Len(requests[s]) IN
            /\ \A i \in 1..n : \A j \in 1..n :
                  requests[s][i].offset = requests[s][j].offset => i = j
            /\ \A i \in 1..(n - 1) :
                  responses[s][i].kind = "data" /\ responses[s][i].n >= 900)
    /\ \A s \in Sessions :
          (pc[s] \in {"in_api", "api_exit"}) ~> (pc[s] = "after_load")

\* A fetch of two full pages and an empty one has returned 1800 rows.
C24_Witness ==
    \E s \in Sessions :
        /\ pc[s] = "after_load"
        /\ SweptApi(s)
        /\ PageSizesSeen(s) = <<900, 900, 0>>
        /\ requests[s][3].offset = 1800
        /\ Len(df[s].rows) = 1800

==============================================================================
